---- MODULE Spec2Model ----
(***************************************************************************)
(* Model of the all-time draft lineup scorer: the roster/calibration state *)
(* of src/lib/data.ts and the scoring functions of src/lib/scoring.ts.     *)
(*                                                                         *)
(* Numbers.  The code computes on IEEE doubles; the model computes on      *)
(* integers in fixed point.  The unit of every quantity is stated where    *)
(* it is defined:                                                          *)
(*   deci   = 1/10      (values after roundToOneDecimal)                   *)
(*   milli  = 1/1000    (normalized metrics)                               *)
(*   e5     = 1/100000  (role profile dimensions, chemistry sub-scores)    *)
(*   1/10^7 and 1/10^8  (chemistryScore and multiplier before rounding)    *)
(* Rounding is exact half-up rounding of the decimal value; a double that  *)
(* falls just short of a tie is not modelled.                              *)
(* A percentile is kept as an exact fraction [num, den].                   *)
(* Strings are sequences of one-character strings so that template-string  *)
(* concatenation is modelled as concatenation.                             *)
(***************************************************************************)
EXTENDS Integers, Sequences, FiniteSets, TLC

VARIABLES
    seed,                       \* ALL_TIME_TEAM_SEED: team abbr -> seed players
    rosterByTeam,               \* data.ts:20
    rosterNamesByTeam,          \* data.ts:21
    statsByTeamPlayer,          \* data.ts:22 (a Map: key -> PlayerStats)
    slotsByTeamPlayer,          \* data.ts:23 (a Map: key -> LineupSlot[])
    globalMetricRanges,         \* data.ts:24
    globalMetricDistributions,  \* data.ts:30
    pc,                         \* "idle" | "called" | "returned": the caller's position
    call,                       \* the call in progress: [op, ...arguments]
    result,                     \* what the call returned
    lookups,                    \* keys lookupPlayerStats was asked for during the call
    memo,                       \* the first scoreLineup call of a probe lineup, and its result
    metaByPlayerId,             \* sync-all-time-data.ts:128 (playerId -> promise)
    promises,                   \* the promises getPlayerMeta has created, in order
    job,                        \* the buildTeamSeed call of main in progress
    pool,                       \* the mapWithConcurrency call of buildTeamSeed
    seedByTeam,                 \* sync-all-time-data.ts:949
    fetchJsonCall,              \* a fetchJson call
    draftBoard                  \* draft-board.tsx: the props and state of a mounted DraftBoard

dataVars == <<seed, rosterByTeam, rosterNamesByTeam, statsByTeamPlayer,
              slotsByTeamPlayer, globalMetricRanges, globalMetricDistributions>>
scoringVars == <<pc, call, result, lookups, memo>>
syncVars == <<metaByPlayerId, promises, job, pool, seedByTeam>>
vars == <<seed, rosterByTeam, rosterNamesByTeam, statsByTeamPlayer,
          slotsByTeamPlayer, globalMetricRanges, globalMetricDistributions,
          pc, call, result, lookups, memo,
          metaByPlayerId, promises, job, pool, seedByTeam, fetchJsonCall, draftBoard>>

(***************************************************************************)
(* Bounds of the model.                                                    *)
(***************************************************************************)
MaxSeedLen == 16        \* longest seed list of a franchise
MaxPicks == 5           \* longest lineup passed to scoreLineup
MaxPop == 3             \* longest population passed to normalizeByDistribution
MaxRows == 6            \* most rows of a franchise-players table
MaxRetries == 3         \* most attempts fetchJson is asked for

(***************************************************************************)
(* Scalars                                                                 *)
(***************************************************************************)
Min(a, b) == IF a < b THEN a ELSE b
Max(a, b) == IF a > b THEN a ELSE b
Abs(a) == IF a < 0 THEN 0 - a ELSE a

\* A clamp that has the upper limit only.
clampToMaximum(value, min, max) == Min(max, value)

clamp(value, min, max) == Max(min, Min(max, value))

\* Math.round(value * 10) / 10 for value = n / den: the result in deci.
\* Math.round rounds half up, which is floor(x + 1/2).
\* den is a multiple of 20.
roundToOneDecimal(n, den) == (n + den \div 20) \div (den \div 10)

RECURSIVE SeqSum(_)
SeqSum(s) == IF s = <<>> THEN 0 ELSE Head(s) + SeqSum(Tail(s))

RECURSIVE SeqMax(_)
SeqMax(s) == IF Len(s) = 1 THEN s[1] ELSE Max(Head(s), SeqMax(Tail(s)))

\* average(values): 0 for the empty list, else the sum over the length
\* (truncated to the unit of the values).
average(values) == IF Len(values) = 0 THEN 0 ELSE SeqSum(values) \div Len(values)

RECURSIVE SqrtSearch(_, _, _)
SqrtSearch(v, low, high) ==
    IF low >= high THEN low
    ELSE LET mid == (low + high + 1) \div 2
         IN IF mid * mid <= v THEN SqrtSearch(v, mid, high)
            ELSE SqrtSearch(v, low, mid - 1)
\* standardDeviation(values) for values in e5; the deviations are squared
\* in centi (1/100) to stay inside 32 bits, so the result is exact to 0.01.
standardDeviation(values) ==
    LET \* Math.sqrt on integers: the largest r with r * r <= v.
        Sqrt(v) == SqrtSearch(v, 0, 46340)
    IN
    IF Len(values) = 0 THEN 0
    ELSE LET mean == average(values)
             sq == [i \in 1..Len(values) |->
                       ((values[i] - mean) \div 1000) * ((values[i] - mean) \div 1000)]
             variance == SeqSum(sq) \div Len(values)
         IN Sqrt(variance) * 1000

\* The elements of seq in ascending (or descending) order of their keys
\* (keys[i] is the key of seq[i]), stable: Array.prototype.sort with a
\* numeric comparator.
SortBy(seq, keys, descending) ==
    LET n == Len(seq)
        before(j, i) ==
            \/ IF descending THEN keys[j] > keys[i] ELSE keys[j] < keys[i]
            \/ keys[j] = keys[i] /\ j < i
        rank(i) == Cardinality({j \in 1..n : before(j, i)}) + 1
    IN [k \in 1..n |-> seq[CHOOSE i \in 1..n : rank(i) = k]]

(***************************************************************************)
(* Strings, slots, teams                                                   *)
(***************************************************************************)
LINEUP_SLOTS == <<"PG", "SG", "SF", "PF", "C">>
SlotSet == {LINEUP_SLOTS[i] : i \in 1..Len(LINEUP_SLOTS)}

ATL == <<"A", "T", "L">>
BOS == <<"B", "O", "S">>
\* teams.json: the franchises (two of the thirty are modelled).
typedTeams == <<ATL, BOS>>
TeamSet == {typedTeams[i] : i \in 1..Len(typedTeams)}

\* `${teamAbbr}|${playerName}`
makeTeamPlayerKey(teamAbbr, playerName) == teamAbbr \o <<"|">> \o playerName

(***************************************************************************)
(* The seed (src/lib/all-time-seed.ts, data): per franchise a ranked list  *)
(* of players.  A seed player is                                           *)
(*   [name, years, positions, careerYears, championships]                  *)
(* where years stands for the string 'YYYY-YYYY' (matches = FALSE for any  *)
(* other string, such as 'Unknown'), and an optional number is [def, val]. *)
(***************************************************************************)
PlainName(i) ==
    LET Digit == <<"0", "1", "2", "3", "4", "5", "6", "7", "8", "9">>
    IN
    <<"p", Digit[(i \div 10) + 1], Digit[(i % 10) + 1]>>
\* The i-th player of the seed list of the t-th franchise.  Seed names are
\* player display names: none holds the '|' of the map keys.  The second
\* franchise lists one name twice.
SeedPlayer(t, i) ==
    LET PositionPatterns == << <<"PG">>, <<"SG", "SF">>, <<>>, <<"C">>, <<"PF", "C">> >>
    IN
    [name |-> IF t = 2 /\ i = 3 THEN PlainName(1) ELSE PlainName(i),
     years |-> [matches |-> i % 6 # 5,
                startYear |-> 1980 + i,
                endYear |-> IF i % 7 = 6 THEN 1979 + i
                            ELSE 1980 + i + ((i * 5 + t) % 13)],
     positions |-> PositionPatterns[(i % 5) + 1],
     careerYears |-> [def |-> i % 2 = 0, val |-> ((i * 9) % 20) + 1],
     championships |-> [def |-> i % 3 # 0, val |-> (i % 4) - 1],
     categoryRaw |-> [def |-> i % 4 # 1,
                      val |-> [playerAccolades |-> (i * 37) % 250,
                               teamAccolades |-> 100 + ((i * 53) % 400),
                               stats |-> 2000 + ((i * 911) % 9000),
                               advanced |-> 200 + ((i * 17) % 300)]]]

SeedList(t, n) == [i \in 1..n |-> SeedPlayer(t, i)]

(***************************************************************************)
(* data.ts: franchise greatness                                            *)
(***************************************************************************)
parseYearsWithTeam(yearRange) ==
    IF ~yearRange.matches THEN 1
    ELSE IF yearRange.endYear < yearRange.startYear THEN 1
    ELSE Max(1, yearRange.endYear - yearRange.startYear + 1)

tierForRank(rankIndex) ==
    IF rankIndex <= 2 THEN 1
    ELSE IF rankIndex <= 6 THEN 2
    ELSE IF rankIndex <= 10 THEN 3
    ELSE IF rankIndex <= 13 THEN 4
    ELSE 5

\* yearsWithTeam / Math.max(1, careerYears) as a fraction, without the clamp.
tenureRatioUnclamped(yearsWithTeam, careerYears) ==
    [num |-> yearsWithTeam, den |-> Max(1, careerYears)]

\* clamp(yearsWithTeam / Math.max(1, careerYears), 0.08, 1) as a fraction.
tenureRatioOf(yearsWithTeam, careerYears) ==
    LET c == Max(1, careerYears)
    IN IF 100 * yearsWithTeam < 8 * c THEN [num |-> 2, den |-> 25]
       ELSE IF yearsWithTeam > c THEN [num |-> 1, den |-> 1]
       ELSE [num |-> yearsWithTeam, den |-> c]

\* computeGreatness.  Inside, a quantity q is held as q * 1000 * D, where D
\* is the denominator of tenureRatio, so the categories are exact; rawScore
\* is cut to milli before the tenure multiplier is applied.  The returned
\* fields are in deci, as roundToOneDecimal leaves them.
computeGreatness(rankIndex, yearsWithTeam, careerYears, championships) ==
    LET tierBoostByTier == <<10, 5, 0, -4, -8>>
    IN
    LET Breakdown(tr) ==
            LET D == tr.den
                rankBase == (100000 - rankIndex * 4200) * D
                tierBoost == tierBoostByTier[tierForRank(rankIndex)] * D
                tenureAdjustment == (tr.num * 1000 - 650 * D) * 30
                personalAccolades == clamp(
                    rankBase + tierBoost * 1000 + yearsWithTeam * 550 * D
                        + (tenureAdjustment * 6) \div 10,
                    18000 * D, 99000 * D)
                teamAccolades == clamp(
                    rankBase + tierBoost * 600 + championships * 6000 * D
                        + yearsWithTeam * 750 * D + (tenureAdjustment * 7) \div 10,
                    15000 * D, 99000 * D)
                boxStats == clamp(
                    rankBase + tierBoost * 350 + yearsWithTeam * 900 * D
                        + (tenureAdjustment * 45) \div 100,
                    18000 * D, 99000 * D)
                advancedStats == clamp(
                    rankBase + tierBoost * 900 + yearsWithTeam * 650 * D
                        + (tenureAdjustment * 8) \div 10,
                    18000 * D, 99000 * D)
                rawScore ==
                    (personalAccolades * 30 + teamAccolades * 25
                        + boxStats * 25 + advancedStats * 20) \div (100 * D)
                tenureMultiplier == 58 * D + tr.num * 42
            IN [personalAccolades |-> roundToOneDecimal(personalAccolades, 1000 * D),
                teamAccolades |-> roundToOneDecimal(teamAccolades, 1000 * D),
                boxStats |-> roundToOneDecimal(boxStats, 1000 * D),
                advancedStats |-> roundToOneDecimal(advancedStats, 1000 * D),
                franchiseScore |-> roundToOneDecimal(
                    clamp((rawScore * tenureMultiplier) \div (100 * D), 12000, 99000),
                    1000),
                yearsWithTeam |-> yearsWithTeam,
                careerYears |-> careerYears,
                tenureRatio |-> roundToOneDecimal(tr.num * 20, tr.den * 20)]
    IN Breakdown(tenureRatioOf(yearsWithTeam, careerYears))

\* PlayerStats in deci.
fallbackByPrimarySlot(slot) ==
    IF slot = "PG" THEN [bpm |-> 550, ws48 |-> 520, vorp |-> 540, epm |-> 530]
    ELSE IF slot = "SG" THEN [bpm |-> 540, ws48 |-> 500, vorp |-> 530, epm |-> 520]
    ELSE IF slot = "SF" THEN [bpm |-> 550, ws48 |-> 520, vorp |-> 550, epm |-> 540]
    ELSE IF slot = "PF" THEN [bpm |-> 560, ws48 |-> 540, vorp |-> 560, epm |-> 550]
    ELSE [bpm |-> 570, ws48 |-> 550, vorp |-> 570, epm |-> 560]

(***************************************************************************)
(* data.ts: initializeAllTimeData                                          *)
(***************************************************************************)
\* The size of a franchise roster: .slice(0, 15).
RosterSize == 15

\* seedPlayers.map(...): the FranchiseRosterPlayer of each seed player.
normalizedPlayers(seedPlayers) ==
    [k \in 1..Len(seedPlayers) |->
        LET seedPlayer == seedPlayers[k]
            rankIndex == k - 1
            yearsWithTeam == parseYearsWithTeam(seedPlayer.years)
            careerYears ==
                Max(IF seedPlayer.careerYears.def THEN seedPlayer.careerYears.val
                    ELSE yearsWithTeam,
                    yearsWithTeam)
            championships ==
                Max(0, IF seedPlayer.championships.def THEN seedPlayer.championships.val
                       ELSE 0)
        IN [name |-> seedPlayer.name,
            yearsWithTeam |-> seedPlayer.years,
            eligibleSlots |-> IF Len(seedPlayer.positions) > 0 THEN seedPlayer.positions
                              ELSE LINEUP_SLOTS,
            greatness |-> computeGreatness(rankIndex, yearsWithTeam, careerYears,
                                           championships)]]

\* .sort((a, b) => b.greatness.franchiseScore - a.greatness.franchiseScore)
sortByFranchiseScore(players) ==
    SortBy(players, [i \in 1..Len(players) |-> players[i].greatness.franchiseScore], TRUE)

\* Array.prototype.slice(start, end) with 0 <= start.
slice(s, start, end) == SubSeq(s, start + 1, Min(end, Len(s)))

\* The sorted players, all of them kept.
sortedPlayersUnsliced(seedPlayers) ==
    sortByFranchiseScore(normalizedPlayers(seedPlayers))

\* [...normalizedPlayers].sort(by franchiseScore, descending).slice(0, 15)
sortedTopPlayers(seedPlayers) ==
    slice(sortByFranchiseScore(normalizedPlayers(seedPlayers)), 0, RosterSize)

\* ALL_TIME_TEAM_SEED[team.abbr] ?? []
SeedOf(sd, teamAbbr) == IF teamAbbr \in DOMAIN sd THEN sd[teamAbbr] ELSE <<>>

\* rosterByTeam.set(team.abbr, topPlayers.map(...)): greatness is kept here
\* for the maps built from it below; getRosterByTeam drops it.
InitRosterByTeam(sd) == [t \in TeamSet |-> sortedTopPlayers(SeedOf(sd, t))]

\* rosterNamesByTeam.set(team.abbr, topPlayers.map((player) => player.name))
InitRosterNamesByTeam(roster) ==
    [t \in TeamSet |-> [k \in 1..Len(roster[t]) |-> roster[t][k].name]]

\* The Map.set calls of the loop, in order: one per roster player, franchise
\* after franchise.
RECURSIVE MapEntries(_, _)
MapEntries(roster, i) ==
    IF i > Len(typedTeams) THEN <<>>
    ELSE [k \in 1..Len(roster[typedTeams[i]]) |->
             [key |-> makeTeamPlayerKey(typedTeams[i], roster[typedTeams[i]][k].name),
              slots |-> roster[typedTeams[i]][k].eligibleSlots,
              stats |-> [bpm |-> roster[typedTeams[i]][k].greatness.personalAccolades,
                         ws48 |-> roster[typedTeams[i]][k].greatness.teamAccolades,
                         vorp |-> roster[typedTeams[i]][k].greatness.boxStats,
                         epm |-> roster[typedTeams[i]][k].greatness.advancedStats]]]
         \o MapEntries(roster, i + 1)

\* A Map after the .set calls of entries: the last value set for a key stays.
LastEntry(entries, key) ==
    entries[CHOOSE i \in 1..Len(entries) :
                /\ entries[i].key = key
                /\ \A j \in (i + 1)..Len(entries) : entries[j].key # key]

InitStatsByTeamPlayer(roster) ==
    LET entries == MapEntries(roster, 1)
    IN [key \in {entries[i].key : i \in 1..Len(entries)} |-> LastEntry(entries, key).stats]

InitSlotsByTeamPlayer(roster) ==
    LET entries == MapEntries(roster, 1)
    IN [key \in {entries[i].key : i \in 1..Len(entries)} |-> LastEntry(entries, key).slots]

(***************************************************************************)
(* data.ts: initializeGlobalMetricCalibration                              *)
(***************************************************************************)
Metrics == {"bpm", "ws48", "vorp", "epm"}

\* statsByTeamPlayer.values(): one value per key, in the order the keys were
\* first set.
MapValues(roster) ==
    LET entries == MapEntries(roster, 1)
        RECURSIVE Collect(_)
        Collect(i) ==
            IF i > Len(entries) THEN <<>>
            ELSE (IF \A j \in 1..(i - 1) : entries[j].key # entries[i].key
                  THEN <<LastEntry(entries, entries[i].key).stats>>
                  ELSE <<>>)
                 \o Collect(i + 1)
    IN Collect(1)

\* The values in the order they were pushed.
sortSkipped(values) == values

\* [...values].sort((a, b) => a - b)
sortAscending(values) == SortBy(values, values, FALSE)

\* updateMetric: the sorted values of one metric.
InitDistributions(roster) ==
    LET values == MapValues(roster)
    IN [m \in Metrics |-> sortAscending([i \in 1..Len(values) |-> values[i][m]])]

\* updateMetric: the ends of the sorted values; { min: 0, max: 100 } when
\* there are none (deci).
InitRanges(dist) ==
    [m \in Metrics |->
        IF Len(dist[m]) = 0 THEN [min |-> 0, max |-> 1000]
        ELSE [min |-> dist[m][1], max |-> dist[m][Len(dist[m])]]]


(***************************************************************************)
(* data.ts: roster reads                                                   *)
(***************************************************************************)
getRosterNamesByTeam(teamAbbr) ==
    IF teamAbbr \in DOMAIN rosterNamesByTeam THEN rosterNamesByTeam[teamAbbr] ELSE <<>>

getPlayerEligibleSlots(teamAbbr, playerName) ==
    LET key == makeTeamPlayerKey(teamAbbr, playerName)
    IN IF key \in DOMAIN slotsByTeamPlayer THEN slotsByTeamPlayer[key] ELSE LINEUP_SLOTS

getRosterByTeam(teamAbbr) ==
    LET roster == IF teamAbbr \in DOMAIN rosterByTeam THEN rosterByTeam[teamAbbr] ELSE <<>>
    IN [k \in 1..Len(roster) |->
            [name |-> roster[k].name,
             yearsWithTeam |-> roster[k].yearsWithTeam,
             eligibleSlots |-> roster[k].eligibleSlots]]

isPlayerOnTeam(teamAbbr, playerName) ==
    \E k \in 1..Len(getRosterNamesByTeam(teamAbbr)) :
        getRosterNamesByTeam(teamAbbr)[k] = playerName

(***************************************************************************)
(* data.ts: percentile lookup                                              *)
(***************************************************************************)
RECURSIVE upperBoundLoop(_, _, _, _)
upperBoundLoop(sortedValues, value, low, high) ==
    IF low < high
    THEN LET mid == (low + high) \div 2
         IN IF sortedValues[mid + 1] <= value
            THEN upperBoundLoop(sortedValues, value, mid + 1, high)
            ELSE upperBoundLoop(sortedValues, value, low, mid)
    ELSE low
\* An upper bound that compares with <, as lowerBound does.
upperBoundStrict(sortedValues, value) ==
    Cardinality({i \in 1..Len(sortedValues) : sortedValues[i] < value})

\* The number of values <= value (sortedValues[mid] of the code is
\* sortedValues[mid + 1] here: sequences start at 1).
upperBound(sortedValues, value) == upperBoundLoop(sortedValues, value, 0, Len(sortedValues))

\* A search whose comparison is turned around.
RECURSIVE lowerBoundLoopInverted(_, _, _, _)
lowerBoundLoopInverted(sortedValues, value, low, high) ==
    IF low < high
    THEN LET mid == (low + high) \div 2
         IN IF sortedValues[mid + 1] > value
            THEN lowerBoundLoopInverted(sortedValues, value, mid + 1, high)
            ELSE lowerBoundLoopInverted(sortedValues, value, low, mid)
    ELSE low

RECURSIVE lowerBoundLoop(_, _, _, _)
lowerBoundLoop(sortedValues, value, low, high) ==
    IF low < high
    THEN LET mid == (low + high) \div 2
         IN IF sortedValues[mid + 1] < value
            THEN lowerBoundLoop(sortedValues, value, mid + 1, high)
            ELSE lowerBoundLoop(sortedValues, value, low, mid)
    ELSE low
\* The number of values < value.
lowerBound(sortedValues, value) == lowerBoundLoop(sortedValues, value, 0, Len(sortedValues))

\* The percentile of value among the values of metric, as the fraction
\* num / den (of 100).
normalizePlayerMetricGlobally(metric, value) ==
    LET distribution == globalMetricDistributions[metric]
    IN IF Len(distribution) = 0 THEN [num |-> 50, den |-> 1]
       ELSE IF Len(distribution) = 1 THEN [num |-> 50, den |-> 1]
       ELSE LET lower == lowerBound(distribution, value)
                upper == upperBound(distribution, value)
            IN IF upper <= 0 THEN [num |-> 0, den |-> 1]
               ELSE LET clampedLower == clamp(lower, 0, Len(distribution) - 1)
                        clampedUpper == clamp(upper - 1, 0, Len(distribution) - 1)
                    IN [num |-> (clampedLower + clampedUpper) * 100,
                        den |-> 2 * (Len(distribution) - 1)]

\* A percentile that returns early for the empty population only; a
\* population of one value gives 0 / 0.
normalizeByDistributionEmptyOnly(value, sortedValues) ==
    IF Len(sortedValues) = 0 THEN [num |-> 50, den |-> 1]
    ELSE [num |-> (clamp(lowerBound(sortedValues, value), 0, Len(sortedValues) - 1)
                   + clamp(upperBound(sortedValues, value) - 1, 0, Len(sortedValues) - 1))
                  * 100,
          den |-> 2 * (Len(sortedValues) - 1)]

\* A percentile from the two bounds as they are, without the clamp of either.
normalizeByDistributionUnclamped(value, sortedValues) ==
    IF Len(sortedValues) = 0 THEN [num |-> 50, den |-> 1]
    ELSE IF Len(sortedValues) = 1 THEN [num |-> 50, den |-> 1]
    ELSE [num |-> (lowerBound(sortedValues, value) + upperBound(sortedValues, value) - 1) * 100,
          den |-> 2 * (Len(sortedValues) - 1)]

\* The richer variant's percentile of a value in a given sorted population.
normalizeByDistribution(value, sortedValues) ==
    IF Len(sortedValues) = 0 THEN [num |-> 50, den |-> 1]
    ELSE IF Len(sortedValues) = 1 THEN [num |-> 50, den |-> 1]
    ELSE LET lower == lowerBound(sortedValues, value)
             upper == upperBound(sortedValues, value)
             clampedLower == clamp(lower, 0, Len(sortedValues) - 1)
             clampedUpper == clamp(upper - 1, 0, Len(sortedValues) - 1)
         IN [num |-> (clampedLower + clampedUpper) * 100,
             den |-> 2 * (Len(sortedValues) - 1)]

(***************************************************************************)
(* data.ts: stats lookup                                                   *)
(***************************************************************************)
\* A baseline that is the one of the default slot of an empty slot list.
projectedBaselineOfDefault(teamAbbr, playerName) == fallbackByPrimarySlot("SF")

projectedBaselineStats(teamAbbr, playerName) ==
    LET slots == getPlayerEligibleSlots(teamAbbr, playerName)
        primarySlot == IF Len(slots) > 0 THEN slots[1] ELSE "SF"
    IN fallbackByPrimarySlot(primarySlot)

\* A lookup that finds the player under any franchise.
lookupPlayerStatsAnyTeam(teamAbbr, playerName) ==
    IF \A t \in TeamSet : makeTeamPlayerKey(t, playerName) \notin DOMAIN statsByTeamPlayer
    THEN [stats |-> projectedBaselineStats(teamAbbr, playerName),
          usedFallback |-> TRUE,
          seasonsUsed |-> <<"FRANCHISE_BASELINE">>,
          projectedFromSeasons |-> 0]
    ELSE [stats |-> statsByTeamPlayer[
                        makeTeamPlayerKey(
                            CHOOSE t \in TeamSet :
                                makeTeamPlayerKey(t, playerName) \in DOMAIN statsByTeamPlayer,
                            playerName)],
          usedFallback |-> FALSE,
          seasonsUsed |-> <<"ALL_TIME_FRANCHISE">>,
          projectedFromSeasons |-> 1]

lookupPlayerStats(teamAbbr, playerName) ==
    LET teamPlayerKey == makeTeamPlayerKey(teamAbbr, playerName)
    IN IF teamPlayerKey \notin DOMAIN statsByTeamPlayer
       THEN [stats |-> projectedBaselineStats(teamAbbr, playerName),
             usedFallback |-> TRUE,
             seasonsUsed |-> <<"FRANCHISE_BASELINE">>,
             projectedFromSeasons |-> 0]
       ELSE [stats |-> statsByTeamPlayer[teamPlayerKey],
             usedFallback |-> FALSE,
             seasonsUsed |-> <<"ALL_TIME_FRANCHISE">>,
             projectedFromSeasons |-> 1]

(***************************************************************************)
(* scoring.ts: player contribution                                         *)
(***************************************************************************)
\* In hundredths.
METRIC_WEIGHTS == [bpm |-> 30, ws48 |-> 25, vorp |-> 25, epm |-> 20]
PowGamma(x) ==
    LET \* Math.pow(x, 1.15) for x in [0, 1], x and the result in 1/10000: the
        \* values at x = 0, 0.05, ..., 1, joined by straight lines.
        PowGammaTable == <<0, 319, 708, 1129, 1571, 2031, 2504, 2990, 3486, 3992, 4506,
                           5028, 5557, 6093, 6635, 7183, 7737, 8295, 8859, 9427, 10000>>
    IN
    IF x >= 10000 THEN 10000
    ELSE LET k == x \div 500
             lo == PowGammaTable[k + 1]
             hi == PowGammaTable[k + 2]
         IN lo + ((hi - lo) * (x - k * 500)) \div 500

\* The soft cap with a ceiling of 100.
scaleToHundred(p) ==
    clamp((PowGamma(clamp((p.num * 100) \div p.den, 0, 10000)) * 100) \div 10, 0, 100000)

\* clamp(Math.pow(clamp(percentile, 0, 100) / 100, gamma) * ceiling, 0, ceiling)
\* in milli, for the percentile p.num / p.den.
scaleToCeiling(p) ==
    clamp((PowGamma(clamp((p.num * 100) \div p.den, 0, 10000)) * 95) \div 10, 0, 95000)

\* The normalized metric in milli; value is a stat in deci.
normalizeMetric(metric, value) ==
    scaleToCeiling(normalizePlayerMetricGlobally(metric, value))

ZERO_STATS == [bpm |-> 0, ws48 |-> 0, vorp |-> 0, epm |-> 0]

\* The weighted sum of the normalized metrics (milli), rounded: in deci.
contributionOf(normalizedMetrics) ==
    roundToOneDecimal(
        normalizedMetrics.bpm * METRIC_WEIGHTS.bpm
            + normalizedMetrics.ws48 * METRIC_WEIGHTS.ws48
            + normalizedMetrics.vorp * METRIC_WEIGHTS.vorp
            + normalizedMetrics.epm * METRIC_WEIGHTS.epm,
        100000)

\* normalizedMetrics in milli, contribution in deci.
scorePlayer(stats) ==
    LET Scored(normalizedMetrics) ==
            [normalizedMetrics |-> normalizedMetrics,
             contribution |-> contributionOf(normalizedMetrics)]
    IN Scored([m \in Metrics |-> normalizeMetric(m, stats[m])])


(***************************************************************************)
(* scoring.ts: chemistry.  Role profile dimensions and sub-scores in e5.   *)
(***************************************************************************)
slotBonus(slot, bonuses) == IF slot \in DOMAIN bonuses THEN bonuses[slot] * 100000 ELSE 0

RoleDimensions == {"playmaking", "spacing", "rimPressure", "perimeterDefense",
                   "rimProtection", "rebounding", "ballDominance"}

\* metrics in milli, the coefficients in hundredths.
buildRoleProfile(slot, metrics, isPenalty) ==
    IF isPenalty
    THEN [playmaking |-> 0, spacing |-> 0, rimPressure |-> 0, perimeterDefense |-> 0,
          rimProtection |-> 0, rebounding |-> 0, ballDominance |-> 0]
    ELSE [playmaking |-> clamp(
              metrics.vorp * 50 + metrics.bpm * 35
                  + slotBonus(slot, [PG |-> 15, SG |-> 8, SF |-> 3]),
              0, 10000000),
          spacing |-> clamp(
              metrics.epm * 45 + metrics.bpm * 30
                  + slotBonus(slot, [SG |-> 10, SF |-> 8, PG |-> 5]),
              0, 10000000),
          rimPressure |-> clamp(
              metrics.vorp * 45 + metrics.bpm * 20
                  + slotBonus(slot, [C |-> 14, PF |-> 10, SF |-> 5]),
              0, 10000000),
          perimeterDefense |-> clamp(
              metrics.ws48 * 45 + metrics.epm * 25
                  + slotBonus(slot, [SF |-> 12, SG |-> 8, PG |-> 5, PF |-> 4]),
              0, 10000000),
          rimProtection |-> clamp(
              metrics.ws48 * 50 + metrics.epm * 20
                  + slotBonus(slot, [C |-> 16, PF |-> 9, SF |-> 2]),
              0, 10000000),
          rebounding |-> clamp(
              metrics.ws48 * 45 + metrics.vorp * 30
                  + slotBonus(slot, [C |-> 13, PF |-> 9, SF |-> 4]),
              0, 10000000),
          ballDominance |-> clamp(
              metrics.bpm * 50 + metrics.vorp * 35
                  + slotBonus(slot, [PG |-> 12, SG |-> 8, SF |-> 4]),
              0, 10000000)]

\* The role profiles computeChemistry builds, one per player score.
roleProfiles(playerScores) ==
    [i \in 1..Len(playerScores) |->
        buildRoleProfile(playerScores[i].pick.slot,
                         playerScores[i].normalizedMetrics,
                         playerScores[i].pick.isPenalty)]

\* The five sub-scores before they are rounded, in e5.
chemistrySubScores(profiles, playerScores) ==
    LET CountOver(values, threshold) == Cardinality({i \in 1..Len(values) : values[i] > threshold})
    IN
    LET n == Len(profiles)
        dim(d) == [i \in 1..n |-> profiles[i][d]]
        pairScore(a, b) ==
            clamp(5200000
                  + (average(<<Abs(a.playmaking - b.playmaking),
                               Abs(a.spacing - b.spacing),
                               Abs(a.rimPressure - b.rimPressure),
                               Abs(a.perimeterDefense - b.perimeterDefense),
                               Abs(a.rimProtection - b.rimProtection),
                               Abs(a.rebounding - b.rebounding)>>) * 55) \div 100
                  - Max(0, (((a.ballDominance + b.ballDominance) \div 2 - 7200000) * 11)
                               \div 10),
                  0, 10000000)
        pairCount == (n * (n - 1)) \div 2
        pairSum == SeqSum([i \in 1..n |->
                       SeqSum([j \in 1..n |->
                           IF j > i THEN pairScore(profiles[i], profiles[j]) ELSE 0])])
        usage(ballDominanceValues) ==
            clamp(10000000 - (Abs(average(ballDominanceValues) - 6600000) * 12) \div 10
                      - (standardDeviation(ballDominanceValues) * 135) \div 100
                      - CountOver(ballDominanceValues, 8000000) * 350000,
                  0, 10000000)
        offenseValues == [i \in 1..n |->
            average(<<profiles[i].playmaking, profiles[i].spacing, profiles[i].rimPressure>>)]
        defenseValues == [i \in 1..n |->
            average(<<profiles[i].perimeterDefense, profiles[i].rimProtection,
                      profiles[i].rebounding>>)]
        cultureOf(teamAccoladeValues) ==
            clamp(average(teamAccoladeValues)
                      - (standardDeviation(teamAccoladeValues) * 5) \div 10
                      + CountOver(teamAccoladeValues, 7500000) * 250000,
                  0, 10000000)
    IN [roleCoverage |-> clamp(
            average(<<SeqMax(dim("playmaking")), SeqMax(dim("spacing")),
                      SeqMax(dim("perimeterDefense")), SeqMax(dim("rimProtection")),
                      SeqMax(dim("rebounding"))>>),
            0, 10000000),
        complementarity |->
            clamp(IF pairCount = 0 THEN 0 ELSE pairSum \div pairCount, 0, 10000000),
        usageBalance |-> usage(dim("ballDominance")),
        twoWayBalance |->
            clamp(10000000
                      - (Abs(average(offenseValues) - average(defenseValues)) * 125) \div 100,
                  0, 10000000),
        culture |->
            cultureOf([i \in 1..n |-> playerScores[i].normalizedMetrics.ws48 * 100])]

\* chemistryScore (in 1/10^7) of the unrounded sub-scores.
weightedChemistry(sub) ==
    LET CHEMISTRY_WEIGHTS == [roleCoverage |-> 30, complementarity |-> 25, usageBalance |-> 20,
                              twoWayBalance |-> 15, culture |-> 10]
    IN
    clamp(sub.roleCoverage * CHEMISTRY_WEIGHTS.roleCoverage
              + sub.complementarity * CHEMISTRY_WEIGHTS.complementarity
              + sub.usageBalance * CHEMISTRY_WEIGHTS.usageBalance
              + sub.twoWayBalance * CHEMISTRY_WEIGHTS.twoWayBalance
              + sub.culture * CHEMISTRY_WEIGHTS.culture,
          0, 1000000000)

\* A multiplier that is the score over 10 and is left unclamped.
chemistryMultiplierOverTen(chemistryScore) == 100000000 + chemistryScore

\* multiplier (in 1/10^8) of the unrounded chemistryScore (in 1/10^7):
\* clamp(1 + chemistryScore / 100, 1, 2), cut to 8 decimals, which is exact
\* for the rounding to one decimal.
chemistryMultiplier(chemistryScore) ==
    clamp(100000000 + chemistryScore \div 10, 100000000, 200000000)

\* A breakdown whose multiplier is cut, not rounded, to one decimal.
roundedChemistryFloor(sub, chemistryScore) ==
    [roleCoverage |-> roundToOneDecimal(sub.roleCoverage, 100000),
     complementarity |-> roundToOneDecimal(sub.complementarity, 100000),
     usageBalance |-> roundToOneDecimal(sub.usageBalance, 100000),
     twoWayBalance |-> roundToOneDecimal(sub.twoWayBalance, 100000),
     culture |-> roundToOneDecimal(sub.culture, 100000),
     chemistryScore |-> roundToOneDecimal(chemistryScore, 10000000),
     multiplier |-> chemistryMultiplier(chemistryScore) \div 10000000]

\* The ChemistryBreakdown returned, rounded at the return: every field in
\* deci.
roundedChemistry(sub, chemistryScore) ==
    [roleCoverage |-> roundToOneDecimal(sub.roleCoverage, 100000),
     complementarity |-> roundToOneDecimal(sub.complementarity, 100000),
     usageBalance |-> roundToOneDecimal(sub.usageBalance, 100000),
     twoWayBalance |-> roundToOneDecimal(sub.twoWayBalance, 100000),
     culture |-> roundToOneDecimal(sub.culture, 100000),
     chemistryScore |-> roundToOneDecimal(chemistryScore, 10000000),
     multiplier |-> roundToOneDecimal(chemistryMultiplier(chemistryScore), 100000000)]

computeChemistry(playerScores) ==
    IF Len(playerScores) = 0
    THEN [roleCoverage |-> 0, complementarity |-> 0, usageBalance |-> 0,
          twoWayBalance |-> 0, culture |-> 0, chemistryScore |-> 0, multiplier |-> 10]
    ELSE LET Weighted(sub) == roundedChemistry(sub, weightedChemistry(sub))
         IN Weighted(chemistrySubScores(roleProfiles(playerScores), playerScores))

(***************************************************************************)
(* scoring.ts: lineup score                                                *)
(***************************************************************************)
\* A scoring of a pick that makes the stats lookup before it looks at
\* isPenalty.
scorePickLookupFirst(pick) ==
    LET Breakdown(statsLookup, scoredPlayer) ==
            [pick |-> pick,
             stats |-> IF pick.isPenalty THEN ZERO_STATS ELSE statsLookup.stats,
             usedFallback |-> IF pick.isPenalty THEN FALSE ELSE statsLookup.usedFallback,
             normalizedMetrics |-> IF pick.isPenalty THEN ZERO_STATS
                                   ELSE scoredPlayer.normalizedMetrics,
             contribution |-> IF pick.isPenalty THEN 0 ELSE scoredPlayer.contribution]
        Scored(statsLookup) == Breakdown(statsLookup, scorePlayer(statsLookup.stats))
    IN [score |-> Scored(lookupPlayerStats(pick.teamAbbr, pick.playerName)),
        lookedUp |-> <<makeTeamPlayerKey(pick.teamAbbr, pick.playerName)>>]

\* A scoring that looks every pick up, the penalty picks too, and keeps the
\* usedFallback of the lookup for them.
scorePickPenaltyLookedUp(pick) ==
    LET Breakdown(statsLookup, scoredPlayer) ==
            [pick |-> pick,
             stats |-> IF pick.isPenalty THEN ZERO_STATS ELSE statsLookup.stats,
             usedFallback |-> statsLookup.usedFallback,
             normalizedMetrics |-> IF pick.isPenalty THEN ZERO_STATS
                                   ELSE scoredPlayer.normalizedMetrics,
             contribution |-> IF pick.isPenalty THEN 0 ELSE scoredPlayer.contribution]
        Scored(statsLookup) == Breakdown(statsLookup, scorePlayer(statsLookup.stats))
    IN [score |-> Scored(lookupPlayerStats(pick.teamAbbr, pick.playerName)),
        lookedUp |-> <<makeTeamPlayerKey(pick.teamAbbr, pick.playerName)>>]

\* The PlayerScoreBreakdown of one pick (stats in deci, normalizedMetrics in
\* milli, contribution in deci), with the keys lookupPlayerStats was called
\* for on the way.
scorePick(pick) ==
    IF pick.isPenalty
    THEN [score |-> [pick |-> pick,
                     stats |-> ZERO_STATS,
                     usedFallback |-> FALSE,
                     normalizedMetrics |-> ZERO_STATS,
                     contribution |-> 0],
          lookedUp |-> <<>>]
    ELSE LET Breakdown(statsLookup, scoredPlayer) ==
                 [pick |-> pick,
                  stats |-> statsLookup.stats,
                  usedFallback |-> statsLookup.usedFallback,
                  normalizedMetrics |-> scoredPlayer.normalizedMetrics,
                  contribution |-> scoredPlayer.contribution]
             Scored(statsLookup) == Breakdown(statsLookup, scorePlayer(statsLookup.stats))
         IN [score |-> Scored(lookupPlayerStats(pick.teamAbbr, pick.playerName)),
             lookedUp |-> <<makeTeamPlayerKey(pick.teamAbbr, pick.playerName)>>]

\* A base score that divides by the size of a full lineup.
baseTeamScoreOfFive(playerScores) ==
    roundToOneDecimal(
        SeqSum([i \in 1..Len(playerScores) |-> playerScores[i].contribution]) * 100,
        1000 * Len(LINEUP_SLOTS))

\* roundToOneDecimal(totalContribution / playerScores.length), in deci.
baseTeamScoreOf(playerScores) ==
    roundToOneDecimal(
        SeqSum([i \in 1..Len(playerScores) |-> playerScores[i].contribution]) * 100,
        1000 * Len(playerScores))

\* baseTeamScore, teamScore in deci.
scoreLineup(picks) ==
    IF Len(picks) = 0
    THEN [baseTeamScore |-> 0,
          teamScore |-> 0,
          chemistry |-> [roleCoverage |-> 0, complementarity |-> 0, usageBalance |-> 0,
                         twoWayBalance |-> 0, culture |-> 0, chemistryScore |-> 0,
                         multiplier |-> 10],
          playerScores |-> <<>>,
          usedFallbackStats |-> FALSE]
    ELSE LET Totals(playerScores, baseTeamScore, chemistry) ==
                 [baseTeamScore |-> baseTeamScore,
                  teamScore |-> roundToOneDecimal(baseTeamScore * chemistry.multiplier, 100),
                  chemistry |-> chemistry,
                  playerScores |-> playerScores,
                  usedFallbackStats |->
                      \E i \in 1..Len(playerScores) : playerScores[i].usedFallback]
             Scored(playerScores) ==
                 Totals(playerScores, baseTeamScoreOf(playerScores),
                        computeChemistry(playerScores))
         IN Scored([i \in 1..Len(picks) |-> scorePick(picks[i]).score])


(***************************************************************************)
(* The arguments the calls are made with                                   *)
(***************************************************************************)
UnknownName == <<"z", "z">>
PipeTeam == ATL \o <<"|", "x">>     \* a team abbreviation no franchise has
QueryTeams ==
    LET NYK == <<"N", "Y", "K">>            \* a franchise without a seed list
    IN
    TeamSet \cup {PipeTeam, NYK}
QueryNames ==
    LET PipeName == <<"x", "|", "y">>
    IN
    {PlainName(1), PlainName(3), PipeName, <<"y">>, PlainName(MaxSeedLen),
               UnknownName}

\* The pick at position i of a lineup of n picks.
\*   slotScheme 1: the slots in order; 2: every pick in the same slot
\*   penalties  1: none; 2: all; 3: the odd positions; 4: the first; 5: the last
\*   players    1: the i-th ATL seed name; 2: an unknown name;
\*              3: the i-th BOS seed name at odd positions, unknown at even;
\*              4: as 1, the first pick under a team abbreviation with a '|'
\*              5: the first ATL seed name at every position
PickAt(i, n, slotScheme, penalties, players) ==
    [slot |-> IF slotScheme = 1 THEN LINEUP_SLOTS[((i - 1) % Len(LINEUP_SLOTS)) + 1]
              ELSE "PG",
     teamAbbr |-> IF players = 3 THEN BOS
                  ELSE IF players = 4 /\ i = 1 THEN PipeTeam
                  ELSE ATL,
     playerName |-> IF players = 2 \/ (players = 3 /\ i % 2 = 0) THEN UnknownName
                    ELSE IF players = 4 /\ i = 1 THEN <<"y">>
                    ELSE IF players = 3 THEN SeedPlayer(2, i).name
                    ELSE IF players = 5 THEN SeedPlayer(1, 1).name
                    ELSE SeedPlayer(1, i).name,
     isPenalty |-> \/ penalties = 2
                   \/ penalties = 3 /\ i % 2 = 1
                   \/ penalties = 4 /\ i = 1
                   \/ penalties = 5 /\ i = n]

Lineup(n, slotScheme, penalties, players) ==
    [i \in 1..n |-> PickAt(i, n, slotScheme, penalties, players)]

Lineups == {Lineup(n, ss, pe, pl) : n \in 0..MaxPicks, ss \in 1..2, pe \in 1..5, pl \in 1..5}

\* The lineups whose first result is remembered, to compare later results with.
ProbeLineups == {Lineup(n, 1, pe, pl) : n \in {1, MaxPicks}, pe \in {1, 4}, pl \in 1..3}

StatsChoices == {ZERO_STATS,
                 fallbackByPrimarySlot("PG"),
                 [bpm |-> 990, ws48 |-> 150, vorp |-> 555, epm |-> 2000],
                 [bpm |-> 871, ws48 |-> 990, vorp |-> 990, epm |-> 990]}

\* Query values (deci) for a metric: below and above every value, and values
\* of the distribution and their successors.
ProbeValues(metric) ==
    LET dist == globalMetricDistributions[metric]
        at == {i \in {1, 2, (Len(dist) + 1) \div 2, Len(dist)} : 1 <= i /\ i <= Len(dist)}
    IN {0, 2000} \cup {dist[i] : i \in at} \cup {dist[i] + 1 : i \in at}

RECURSIVE SeqsOver(_)
\* The sequences of n population values.
SeqsOver(n) ==
    LET PopValues == 1..3
    IN
    IF n = 0 THEN {<<>>} ELSE {Append(s, v) : s \in SeqsOver(n - 1), v \in PopValues}
\* The ascending ones of at most MaxPop values.
Populations ==
    UNION {{s \in SeqsOver(n) : \A i \in 1..(n - 1) : s[i] <= s[i + 1]} : n \in 0..MaxPop}

(***************************************************************************)
(* scripts/sync-all-time-data.ts: names                                    *)
(* A code point outside ASCII is written by its name: "U+00E9" is the      *)
(* precomposed e with acute, "U+0301" the combining acute accent.          *)
(***************************************************************************)
\* \s, among the code points of the model.
WhiteSpace == {" ", "U+0009", "U+00A0"}

\* String.prototype.trim
Trim(value) ==
    LET RECURSIVE TrimStart(_)
        TrimStart(chars) ==
            IF chars # <<>> /\ Head(chars) \in WhiteSpace THEN TrimStart(Tail(chars))
            ELSE chars
        RECURSIVE TrimEnd(_)
        TrimEnd(chars) ==
            IF chars # <<>> /\ chars[Len(chars)] \in WhiteSpace
            THEN TrimEnd(SubSeq(chars, 1, Len(chars) - 1))
            ELSE chars
    IN TrimEnd(TrimStart(value))

normalizeName(value) ==
    LET \* String.prototype.normalize('NFD') on one code point.
        Decompose(ch) ==
            IF ch = "U+00E9" THEN <<"e", "U+0301">>
            ELSE IF ch = "U+00C9" THEN <<"E", "U+0301">>
            ELSE IF ch = "U+1E55" THEN <<"p", "U+0301">>
            ELSE <<ch>>
        RECURSIVE FlatMapDecompose(_)
        FlatMapDecompose(chars) ==
            IF chars = <<>> THEN <<>>
            ELSE Decompose(Head(chars)) \o FlatMapDecompose(Tail(chars))
        \* \p{Diacritic}, among the code points of the model.
        Diacritics == {"U+0301", "U+0308", "^"}
        \* .replace(/\p{Diacritic}/gu, '')
        StripDiacritics(chars) == SelectSeq(chars, LAMBDA ch : ch \notin Diacritics)
        \* .replace(/[\u2018\u2019]/g, "'")
        StraightQuote(ch) == IF ch \in {"U+2018", "U+2019"} THEN "'" ELSE ch
        StraightQuotes(chars) == [i \in 1..Len(chars) |-> StraightQuote(chars[i])]
        \* .replace(/\s+/g, ' '): a run of white space becomes one space.
        RECURSIVE CollapseWhiteSpace(_)
        CollapseWhiteSpace(chars) ==
            IF chars = <<>> THEN <<>>
            ELSE IF Head(chars) \in WhiteSpace
                 THEN IF Len(chars) > 1 /\ chars[2] \in WhiteSpace
                      THEN CollapseWhiteSpace(Tail(chars))
                      ELSE <<" ">> \o CollapseWhiteSpace(Tail(chars))
                 ELSE <<Head(chars)>> \o CollapseWhiteSpace(Tail(chars))
        \* String.prototype.toLowerCase on one code point.
        LowerCase(ch) ==
            IF ch = "P" THEN "p"
            ELSE IF ch = "E" THEN "e"
            ELSE IF ch = "X" THEN "x"
            ELSE ch
        Lowered(trimmed) == [i \in 1..Len(trimmed) |-> LowerCase(trimmed[i])]
    IN Lowered(Trim(CollapseWhiteSpace(StraightQuotes(StripDiacritics(
           FlatMapDecompose(value))))))

(***************************************************************************)
(* scripts/sync-all-time-data.ts: season strings                           *)
(* A season or year-range string is [form, startYear, endYear]:            *)
(*   form "full"  is 'YYYY-YYYY' (startYear, endYear),                     *)
(*   form "short" is 'YYYY-YY'   (startYear, endYear the two digits),      *)
(*   form "text"  holds no year at all, as 'Unknown' and ''.               *)
(* A seed's years field ([matches, startYear, endYear]) is "full" when it  *)
(* matches and "text" otherwise.                                           *)
(***************************************************************************)
UnknownYears == [form |-> "text", startYear |-> 0, endYear |-> 0]

yearsString(years) ==
    [form |-> IF years.matches THEN "full" ELSE "text",
     startYear |-> years.startYear, endYear |-> years.endYear]

parseSeasonBounds(seasonId) ==
    LET NoBounds == [found |-> FALSE]
    IN
    IF seasonId.form = "full" /\ seasonId.endYear >= seasonId.startYear
    THEN [found |-> TRUE, start |-> seasonId.startYear, end |-> seasonId.endYear]
    ELSE IF seasonId.form = "short"
    THEN LET century == (seasonId.startYear \div 100) * 100
             end == century + seasonId.endYear
         IN [found |-> TRUE, start |-> seasonId.startYear,
             end |-> IF end < seasonId.startYear THEN end + 100 ELSE end]
    ELSE IF seasonId.form = "full"
    THEN \* /(\d{4})/ finds the first year of a range that runs backwards
         [found |-> TRUE, start |-> seasonId.startYear, end |-> seasonId.startYear + 1]
    ELSE NoBounds

(***************************************************************************)
(* The NBA stats payloads                                                  *)
(* An optional property is [def |-> FALSE] or [def |-> TRUE, val |-> v].   *)
(* A result set is [name, headers, rowSet]; a payload is                   *)
(* [resultSets, resultSet].  A row is a sequence of cells.                 *)
(***************************************************************************)
Absent == [def |-> FALSE]
Some(v) == [def |-> TRUE, val |-> v]

\* parseResultSet without a preferred name: [thrown] or [headers, rows].
parseResultSet(payload) ==
    LET \* Whether a set has arrays for headers and rowSet.
        IsTable(set) == set.headers.def /\ set.rowSet.def
    IN
    IF payload.resultSets.def /\ Len(payload.resultSets.val) > 0
          /\ IsTable(payload.resultSets.val[1])
    THEN [thrown |-> FALSE,
          headers |-> payload.resultSets.val[1].headers.val,
          rows |-> payload.resultSets.val[1].rowSet.val]
    ELSE IF payload.resultSet.def /\ IsTable(payload.resultSet.val)
    THEN [thrown |-> FALSE,
          headers |-> payload.resultSet.val.headers.val,
          rows |-> payload.resultSet.val.rowSet.val]
    ELSE [thrown |-> TRUE]

\* The rows of fetchFranchisePlayers, given the payload fetchJson returned:
\* [thrown] or [rows].
franchisePlayerRows(payload) ==
    LET \* headers.findIndex(...): 0 stands for -1.
        findHeaderIndex(headers, variants) ==
            LET \* String.prototype.toUpperCase on the header names of the model.
                UpperCase(header) ==
                    IF header = "player_name" THEN "PLAYER_NAME"
                    ELSE IF header = "Person_Id" THEN "PERSON_ID"
                    ELSE header
            IN
            LET hits == {i \in 1..Len(headers) : UpperCase(headers[i]) \in variants}
            IN IF hits = {} THEN 0 ELSE CHOOSE i \in hits : \A j \in hits : i <= j
    IN
    LET \* String(data[index] ?? '').trim()
        cellString(data, index) == IF index = 0 \/ index > Len(data) THEN <<>> ELSE Trim(data[index])
    IN
    LET \* toNumber(data[index]): 0 for a missing column.
        cellNumber(data, index) == IF index = 0 \/ index > Len(data) THEN 0 ELSE data[index]
    IN
    LET \* The row objects of the rows that have a finite player id and a name.
        rowsOfTable(rows, playerIdIndex, playerNameIndex, gpIndex, ptsIndex, rebIndex,
                    astIndex, stlIndex, blkIndex, tovIndex) ==
            [k \in 1..Len(rows) |->
                [playerId |-> cellNumber(rows[k], playerIdIndex),
                 playerName |-> cellString(rows[k], playerNameIndex),
                 gp |-> cellNumber(rows[k], gpIndex),
                 pts |-> cellNumber(rows[k], ptsIndex),
                 reb |-> cellNumber(rows[k], rebIndex),
                 ast |-> cellNumber(rows[k], astIndex),
                 stl |-> cellNumber(rows[k], stlIndex),
                 blk |-> cellNumber(rows[k], blkIndex),
                 tov |-> cellNumber(rows[k], tovIndex)]]
    IN
    LET Parsed(table) ==
            LET Rows(playerIdIndex, playerNameIndex, gpIndex, ptsIndex, rebIndex,
                     astIndex, stlIndex, blkIndex, tovIndex) ==
                    IF playerIdIndex = 0 \/ playerNameIndex = 0 THEN [thrown |-> TRUE]
                    ELSE [thrown |-> FALSE,
                          rows |-> rowsOfTable(
                              SelectSeq(table.rows,
                                        LAMBDA data :
                                            /\ playerIdIndex <= Len(data)
                                            /\ cellString(data, playerNameIndex) # <<>>),
                              playerIdIndex, playerNameIndex, gpIndex, ptsIndex, rebIndex,
                              astIndex, stlIndex, blkIndex, tovIndex)]
            IN IF table.thrown THEN [thrown |-> TRUE]
               ELSE Rows(findHeaderIndex(table.headers, {"PLAYER_ID", "PERSON_ID"}),
                         findHeaderIndex(table.headers, {"PLAYER", "PLAYER_NAME"}),
                         findHeaderIndex(table.headers, {"GP"}),
                         findHeaderIndex(table.headers, {"PTS"}),
                         findHeaderIndex(table.headers, {"REB"}),
                         findHeaderIndex(table.headers, {"AST"}),
                         findHeaderIndex(table.headers, {"STL"}),
                         findHeaderIndex(table.headers, {"BLK"}),
                         findHeaderIndex(table.headers, {"TOV"}))
    IN Parsed(parseResultSet(payload))

\* initialFranchiseImpact, in hundredths.
initialFranchiseImpact(row) ==
    row.pts * 100 + row.reb * 120 + row.ast * 150 + row.stl * 250 + row.blk * 250
        + row.gp * 18 - row.tov * 70

(***************************************************************************)
(* What the NBA stats service holds (the pipeline's input).  Quantities    *)
(* the pipeline derives from it are kept in tenths.                        *)
(***************************************************************************)
TEAM_ID_BY_ABBR == [t \in TeamSet |-> IF t = ATL THEN "1610612737" ELSE "1610612738"]

\* fetchPlayerAwards(playerId), when its fetch succeeds.
playerAwardsOf(playerId) ==
    LET Award(description, startYear) ==
            [description |-> description,
             season |-> [form |-> "short", startYear |-> startYear,
                         endYear |-> (startYear + 1) % 100]]
    IN IF playerId = 1
       THEN <<Award("NBA CHAMPION", 1998), Award("NBA MOST VALUABLE PLAYER", 1998),
              Award("NBA CHAMPION", 2000), Award("NBA REBOUNDING CHAMPION", 1999)>>
       ELSE IF playerId = 2
       THEN <<Award("NBA ALL-STAR", 1985), Award("NBA CHAMPION", 1985)>>
       ELSE <<>>

\* mapNbaPositionToSlots(position), position a sequence of characters.
mapNbaPositionToSlots(position) ==
    LET Lower == <<"a", "c", "d", "e", "f", "g", "n", "o", "p", "r", "s", "t", "u", "w">>
        Upper == <<"A", "C", "D", "E", "F", "G", "N", "O", "P", "R", "S", "T", "U", "W">>
        toUpperCase(chars) ==
            [k \in 1..Len(chars) |->
                IF \E l \in 1..Len(Lower) : Lower[l] = chars[k]
                THEN Upper[CHOOSE l \in 1..Len(Lower) : Lower[l] = chars[k]]
                ELSE chars[k]]
        includes(chars, part) ==
            \E k \in 1..(Len(chars) - Len(part) + 1) :
                SubSeq(chars, k, k + Len(part) - 1) = part
        \* normalized.split(/[-/,]/), each token trimmed
        RECURSIVE Tokens(_, _)
        Tokens(chars, token) ==
            IF chars = <<>> THEN <<Trim(token)>>
            ELSE IF Head(chars) \in {"-", "/", ","}
            THEN <<Trim(token)>> \o Tokens(Tail(chars), <<>>)
            ELSE Tokens(Tail(chars), Append(token, Head(chars)))
        Slots(normalized) ==
            LET tokens == Tokens(normalized, <<>>)
                has(value) == \E k \in 1..Len(tokens) : tokens[k] = value
                guard == includes(normalized, <<"G", "U", "A", "R", "D">>) \/ has(<<"G">>)
                forward ==
                    includes(normalized, <<"F", "O", "R", "W", "A", "R", "D">>) \/ has(<<"F">>)
                slots == (IF guard \/ has(<<"P", "G">>) THEN {"PG"} ELSE {})
                         \cup (IF guard \/ has(<<"S", "G">>) THEN {"SG"} ELSE {})
                         \cup (IF forward \/ has(<<"S", "F">>) THEN {"SF"} ELSE {})
                         \cup (IF forward \/ has(<<"P", "F">>) THEN {"PF"} ELSE {})
                         \cup (IF includes(normalized, <<"C", "E", "N", "T", "E", "R">>)
                                   \/ has(<<"C">>)
                               THEN {"C"} ELSE {})
                ordered == SelectSeq(LINEUP_SLOTS, LAMBDA slot : slot \in slots)
            IN IF normalized = <<>> THEN LINEUP_SLOTS
               ELSE IF normalized = <<"G">> THEN <<"PG", "SG">>
               ELSE IF normalized = <<"F">> THEN <<"SF", "PF">>
               ELSE IF Len(ordered) > 0 THEN ordered
               ELSE LINEUP_SLOTS
    IN Slots(toUpperCase(Trim(position)))

\* The PlayerMeta the promise of getPlayerMeta resolves to.
playerMetaOf(playerId) ==
    LET \* fetchCommonPlayerInfo(playerId), when its fetch succeeds: the POSITION
        \* of the row and the career years of its FROM_YEAR and TO_YEAR.
        commonPlayerInfoOf(id) ==
            IF id = 1
            THEN [slots |-> mapNbaPositionToSlots(<<"P", "G">>), careerYears |-> 12]
            ELSE IF id = 2
            THEN [slots |-> mapNbaPositionToSlots(<<"C", "e", "n", "t", "e", "r", "-",
                                                    "F", "o", "r", "w", "a", "r", "d", "/",
                                                    "G">>),
                  careerYears |-> 0]
            ELSE IF id = 3
            THEN [slots |-> mapNbaPositionToSlots(<<"F", "o", "r", "w", "a", "r", "d">>),
                  careerYears |-> 14]
            ELSE [slots |-> mapNbaPositionToSlots(<<" ", "c", " ">>), careerYears |-> 0]
        Season(teamId, startYear, wins, losses) ==
            [teamId |-> teamId,
             seasonId |-> [form |-> "short", startYear |-> startYear,
                           endYear |-> (startYear + 1) % 100],
             gp |-> wins + losses, wins |-> wins, losses |-> losses]
        \* fetchPlayerCareerSeasons(playerId), when its fetch succeeds.
        careerSeasonsOf(id) ==
            IF id = 1
            THEN <<Season(TEAM_ID_BY_ABBR[ATL], 1998, 50, 32),
                   Season(TEAM_ID_BY_ABBR[ATL], 1999, 28, 54),
                   Season(TEAM_ID_BY_ABBR[BOS], 2000, 40, 42)>>
            ELSE IF id = 2
            THEN <<Season(TEAM_ID_BY_ABBR[BOS], 1985, 60, 22),
                   Season(TEAM_ID_BY_ABBR[BOS], 1986, 57, 25)>>
            ELSE IF id = 3
            THEN <<Season(TEAM_ID_BY_ABBR[ATL], 2010, 0, 0)>>
            ELSE <<>>
        Meta(common, seasons, awards) ==
            LET uniqueStarts == {parseSeasonBounds(seasons[k].seasonId).start :
                                    k \in {j \in 1..Len(seasons) :
                                              parseSeasonBounds(seasons[j].seasonId).found}}
                careerYears == IF common.careerYears <= 0 /\ Len(seasons) > 0
                               THEN Cardinality(uniqueStarts)
                               ELSE common.careerYears
            IN [positionSlots |-> common.slots,
                careerYears |-> Max(1, careerYears),
                seasons |-> seasons,
                awards |-> awards]
    IN Meta(commonPlayerInfoOf(playerId), careerSeasonsOf(playerId), playerAwardsOf(playerId))

(***************************************************************************)
(* scripts/sync-all-time-data.ts: what a candidate is scored from          *)
(***************************************************************************)
\* getFallbackSeed: the first seed entry of the franchise with the same
\* normalised name, or null.
getFallbackSeed(teamAbbr, playerName) ==
    LET FirstOf(list, normalized) ==
            LET hits == {i \in 1..Len(list) : normalizeName(list[i].name) = normalized}
            IN IF hits = {} THEN [found |-> FALSE]
               ELSE [found |-> TRUE,
                     entry |-> list[CHOOSE i \in hits : \A j \in hits : i <= j]]
    IN FirstOf(IF teamAbbr \in DOMAIN seed THEN seed[teamAbbr] ELSE <<>>,
               normalizeName(playerName))

\* computePlayerAccoladesRaw (tenths)
computePlayerAccoladesRaw(awards) ==
    LET \* The points of one award description (tenths): the sum over the counters of
        \* buildAwardBreakdown the description adds to.
        awardPoints(description) ==
            IF description = "NBA MOST VALUABLE PLAYER" THEN 240
            ELSE IF description = "NBA ALL-STAR" THEN 20
            ELSE IF description = "NBA REBOUNDING CHAMPION" THEN 15
            ELSE 0
    IN
    SeqSum([k \in 1..Len(awards) |-> awardPoints(awards[k].description)])

\* championshipsForTeam
championshipsForTeam(awards, teamSeasonStarts) ==
    Cardinality({parseSeasonBounds(awards[k].season).start :
                    k \in {j \in 1..Len(awards) :
                              /\ awards[j].description = "NBA CHAMPION"
                              /\ parseSeasonBounds(awards[j].season).found
                              /\ parseSeasonBounds(awards[j].season).start \in teamSeasonStarts}})

\* teamWinningPercentage * 40 (tenths)
teamWinningPercentageTimesForty(seasons) ==
    LET Pct(totalWins, totalLosses) ==
            IF totalWins + totalLosses <= 0 THEN 200
            ELSE (totalWins * 400) \div (totalWins + totalLosses)
    IN Pct(SeqSum([k \in 1..Len(seasons) |-> seasons[k].wins]),
           SeqSum([k \in 1..Len(seasons) |-> seasons[k].losses]))

\* deriveYearRange: years is the string `${minStart}-${maxEnd}` or 'Unknown'.
deriveYearRange(seasons) ==
    LET parsed == {parseSeasonBounds(seasons[k].seasonId) : k \in 1..Len(seasons)}
        bounds == {b \in parsed : b.found}
    IN IF bounds = {}
       THEN [years |-> UnknownYears, yearsWithTeam |-> 1, teamSeasonStarts |-> {}]
       ELSE LET Range(minStart, maxEnd) ==
                    [years |-> [form |-> "full", startYear |-> minStart, endYear |-> maxEnd],
                     yearsWithTeam |-> Max(1, maxEnd - minStart + 1),
                     teamSeasonStarts |-> {b.start : b \in bounds}]
            IN Range(CHOOSE s \in {b.start : b \in bounds} : \A b \in bounds : s <= b.start,
                     CHOOSE e \in {b.end : b \in bounds} : \A b \in bounds : e >= b.end)

\* slotList(seed, fromApi); seedPositions is seed?.positions as an optional.
slotList(seedPositions, fromApi) ==
    LET Ordered(slots) == SelectSeq(LINEUP_SLOTS, LAMBDA slot : \E k \in 1..Len(slots) : slots[k] = slot)
    IN Ordered(IF Len(fromApi) > 0 /\ Len(fromApi) # Len(LINEUP_SLOTS) THEN fromApi
               ELSE IF seedPositions.def THEN seedPositions.val
               ELSE fromApi)

\* An optional number of a seed entry that may be missing altogether: the
\* value of `fallbackPlayer?.field ?? otherwise`.
orElse(fallbackPlayer, field, otherwise) ==
    IF fallbackPlayer.found /\ fallbackPlayer.entry[field].def
    THEN fallbackPlayer.entry[field].val
    ELSE otherwise

fallbackYearsOf(fallbackPlayer) ==
    IF fallbackPlayer.found THEN yearsString(fallbackPlayer.entry.years) ELSE UnknownYears

yearsWithTeamOfBounds(bounds) ==
    IF bounds.found THEN Max(1, bounds.end - bounds.start + 1) ELSE 1

\* The try branch of the mapper: the candidate enriched from its PlayerMeta.
enrichFromMeta(candidate, teamId, fallbackPlayer, meta, leaderCounts) ==
    LET \* statsRaw of the try branch (tenths)
        statsRawOf(row) ==
            row.pts * 10 + row.reb * 12 + row.ast * 15 + row.stl * 22
                + row.blk * 22 - row.tov * 11
    IN
    LET \* advancedRaw of the try branch (tenths)
        advancedRawOf(row) ==
            LET \* Math.log10(Math.max(10, n)) * 20 (tenths), for the games-played totals of
                \* the model.
                log10TimesTwenty(n) ==
                    IF n <= 10 THEN 200
                    ELSE IF n <= 83 THEN 384
                    ELSE IF n <= 165 THEN 444
                    ELSE 521
            IN
            (IF row.gp > 0
             THEN ((row.pts * 100 + row.reb * 125 + row.ast * 160
                       + row.stl * 230 + row.blk * 230 - row.tov * 125) * 12)
                      \div (row.gp * 10)
             ELSE 0)
                + log10TimesTwenty(row.gp + 1)
    IN
    LET teamSeasons == SelectSeq(meta.seasons, LAMBDA season : season.teamId = teamId)
        Entry(yearRange, fallbackYearsWithTeam) ==
            LET yearsWithTeam == IF yearRange.years = UnknownYears THEN fallbackYearsWithTeam
                                 ELSE yearRange.yearsWithTeam
                careerYears == Max(Max(meta.careerYears, orElse(fallbackPlayer, "careerYears", 0)),
                                   yearsWithTeam)
                championshipCount ==
                    Max(championshipsForTeam(meta.awards, yearRange.teamSeasonStarts),
                        orElse(fallbackPlayer, "championships", 0))
            IN [playerId |-> candidate.playerId,
                playerName |-> candidate.playerName,
                years |-> IF yearRange.years = UnknownYears THEN fallbackYearsOf(fallbackPlayer)
                          ELSE yearRange.years,
                yearsWithTeam |-> yearsWithTeam,
                careerYears |-> careerYears,
                positions |-> slotList(IF fallbackPlayer.found
                                       THEN Some(fallbackPlayer.entry.positions) ELSE Absent,
                                       meta.positionSlots),
                championships |-> championshipCount,
                personalAccoladesRaw |-> computePlayerAccoladesRaw(meta.awards),
                teamAccoladesRaw |->
                    championshipCount * 180
                        + (IF candidate.playerId \in DOMAIN leaderCounts
                           THEN leaderCounts[candidate.playerId] ELSE 0) * 40
                        + yearsWithTeam * 9
                        + teamWinningPercentageTimesForty(teamSeasons),
                statsRaw |-> statsRawOf(candidate),
                advancedRaw |-> advancedRawOf(candidate),
                tenureRatio |-> tenureRatioOf(yearsWithTeam, careerYears),
                franchiseScore |-> 0]
    IN Entry(deriveYearRange(teamSeasons),
             yearsWithTeamOfBounds(parseSeasonBounds(fallbackYearsOf(fallbackPlayer))))

\* The catch branch of the mapper: the candidate described by its fallback
\* seed entry, or by defaults.
enrichFromFallback(candidate, fallbackPlayer) ==
    LET Entry(yearsWithTeam) ==
            LET careerYears == Max(orElse(fallbackPlayer, "careerYears", yearsWithTeam),
                                   yearsWithTeam)
                hasCategoryRaw == fallbackPlayer.found /\ fallbackPlayer.entry.categoryRaw.def
            IN [playerId |-> candidate.playerId,
                playerName |-> candidate.playerName,
                years |-> fallbackYearsOf(fallbackPlayer),
                yearsWithTeam |-> yearsWithTeam,
                careerYears |-> careerYears,
                positions |-> slotList(IF fallbackPlayer.found
                                       THEN Some(fallbackPlayer.entry.positions) ELSE Absent,
                                       <<>>),
                championships |-> orElse(fallbackPlayer, "championships", 0),
                personalAccoladesRaw |->
                    IF hasCategoryRaw THEN fallbackPlayer.entry.categoryRaw.val.playerAccolades
                    ELSE 0,
                teamAccoladesRaw |->
                    IF hasCategoryRaw THEN fallbackPlayer.entry.categoryRaw.val.teamAccolades
                    ELSE yearsWithTeam * 11,
                statsRaw |->
                    IF hasCategoryRaw THEN fallbackPlayer.entry.categoryRaw.val.stats
                    ELSE initialFranchiseImpact(candidate) \div 10,
                advancedRaw |->
                    IF hasCategoryRaw THEN fallbackPlayer.entry.categoryRaw.val.advanced
                    ELSE 0,
                tenureRatio |-> tenureRatioOf(yearsWithTeam, careerYears),
                franchiseScore |-> 0]
    IN Entry(yearsWithTeamOfBounds(parseSeasonBounds(fallbackYearsOf(fallbackPlayer))))

(***************************************************************************)
(* scripts/sync-all-time-data.ts: ranking and backfill                     *)
(***************************************************************************)
\* The number of players a franchise's seed list holds.
SeedSize == 15

\* normalizeMetric of the pipeline (thousandths of a point, 0..100000).
normalizeMetricOfPipeline(value, values) ==
    IF Len(values) = 0 THEN 50000
    ELSE LET Scaled(min, max) ==
                 IF max = min THEN 50000 ELSE ((value - min) * 100000) \div (max - min)
         IN Scaled(-SeqMax([k \in 1..Len(values) |-> -values[k]]), SeqMax(values))

\* A tenure multiplier that falls as the tenure ratio grows.
tenureScaledDown(base, tenureRatio) ==
    (base * (100 * tenureRatio.den - 48 * tenureRatio.num)) \div tenureRatio.den

\* base * tenureMultiplier with tenureMultiplier = 0.52 + tenureRatio * 0.48,
\* in units of 1e-5 for a base in thousandths.
tenureScaled(base, tenureRatio) ==
    (base * (52 * tenureRatio.den + 48 * tenureRatio.num)) \div tenureRatio.den

\* ranked: the scored entries by descending franchiseScore, the first fifteen.
rankedEntries(enriched) ==
    LET \* The enriched entries, each with its franchiseScore.
        scoredEntries(entries) ==
            LET \* base * tenureMultiplier, in units of 1e-5; base is cut to thousandths.
                franchiseScoreOf(entry, personalValues, teamValues, statsValues, advancedValues) ==
                    LET Score(base, tenureRatio) == tenureScaled(base, tenureRatio)
                    IN Score((normalizeMetricOfPipeline(entry.personalAccoladesRaw, personalValues) * 30
                                 + normalizeMetricOfPipeline(entry.teamAccoladesRaw, teamValues) * 25
                                 + normalizeMetricOfPipeline(entry.statsRaw, statsValues) * 25
                                 + normalizeMetricOfPipeline(entry.advancedRaw, advancedValues) * 20) \div 100,
                             entry.tenureRatio)
            IN
            LET Scored(personalValues, teamValues, statsValues, advancedValues) ==
                    [k \in 1..Len(entries) |->
                        [entries[k] EXCEPT !.franchiseScore =
                            franchiseScoreOf(entries[k], personalValues, teamValues,
                                             statsValues, advancedValues)]]
            IN Scored([k \in 1..Len(entries) |-> entries[k].personalAccoladesRaw],
                      [k \in 1..Len(entries) |-> entries[k].teamAccoladesRaw],
                      [k \in 1..Len(entries) |-> entries[k].statsRaw],
                      [k \in 1..Len(entries) |-> entries[k].advancedRaw])
    IN
    LET Sorted(scored) ==
            slice(SortBy(scored, [k \in 1..Len(scored) |-> scored[k].franchiseScore], TRUE),
                  0, SeedSize)
    IN Sorted(scoredEntries(enriched))

\* seedPlayers before the backfill.
seedPlayersOfRanked(ranked) ==
    LET \* A year-range string as the years field of a seed entry.
        seedYears(years) ==
            [matches |-> years.form = "full", startYear |-> years.startYear, endYear |-> years.endYear]
    IN
    [k \in 1..Len(ranked) |->
        [name |-> ranked[k].playerName,
         years |-> seedYears(ranked[k].years),
         positions |-> ranked[k].positions,
         careerYears |-> [def |-> TRUE, val |-> Max(1, ranked[k].careerYears)],
         championships |-> [def |-> TRUE, val |-> Max(0, ranked[k].championships)],
         categoryRaw |-> [def |-> TRUE,
                          val |-> [playerAccolades |-> ranked[k].personalAccoladesRaw,
                                   teamAccolades |-> ranked[k].teamAccoladesRaw,
                                   stats |-> ranked[k].statsRaw,
                                   advanced |-> ranked[k].advancedRaw]]]]

\* A backfill that compares the names as they are written.
RECURSIVE backfillByExactName(_, _, _)
backfillByExactName(seedPlayers, fallback, i) ==
    IF i > Len(fallback) \/ Len(seedPlayers) >= SeedSize THEN seedPlayers
    ELSE IF \E k \in 1..Len(seedPlayers) : seedPlayers[k].name = fallback[i].name
    THEN backfillByExactName(seedPlayers, fallback, i + 1)
    ELSE backfillByExactName(Append(seedPlayers, fallback[i]), fallback, i + 1)

\* The loop over the fallback list, from its i-th entry on.  existingNames is
\* the set of the normalised names of seedPlayers throughout.
RECURSIVE backfill(_, _, _)
backfill(seedPlayers, fallback, i) ==
    IF i > Len(fallback) \/ Len(seedPlayers) >= SeedSize THEN seedPlayers
    ELSE IF \E k \in 1..Len(seedPlayers) :
                normalizeName(seedPlayers[k].name) = normalizeName(fallback[i].name)
    THEN backfill(seedPlayers, fallback, i + 1)
    ELSE backfill(Append(seedPlayers, fallback[i]), fallback, i + 1)

\* What buildTeamSeed returns once every candidate is enriched.
seedPlayersOf(enriched, fallback) ==
    slice(backfill(seedPlayersOfRanked(rankedEntries(enriched)), fallback, 1), 0, SeedSize)

(***************************************************************************)
(* scripts/sync-all-time-data.ts: the responses of the stats service       *)
(***************************************************************************)
\* What `await fetchJson(url)` gives fetchFranchisePlayers: the fetch throws
\* after its retries, or returns a payload.
FranchisePlayersResponses(t) ==
    LET \* The k-th row of a franchise's table.  The rows name players of the seed
        \* in other spellings (case, an accent, white space), players the seed does
        \* not hold, and one player id more than once.
        FranchiseRow(franchise, k) ==
            LET NewName == <<"n", "e", "w">>
            IN
            IF k = 1 THEN <<1, <<"P", "0", "1">>, 164, 900, 300, 200, 50, 20, 100>>
            ELSE IF k = 2 THEN <<2, <<" ", "U+1E55", "0", "2">>, 82, 400 + franchise, 500, 30, 10, 90, 60>>
            ELSE IF k = 3 THEN <<3, NewName, 9, 40, 10, 5, 1, 0, 8>>
            ELSE IF k = 4 THEN <<1, <<"p", "0", "U+00A0", " ", "4">>, 400, 1200, 100, 400, 80, 5, 150>>
            ELSE IF k = 5 THEN <<2, NewName, 0, 0, 0, 0, 0, 0, 0>>
            ELSE <<3, PlainName(k), 82, 100 * (k % 3), 50, 20, 5, 5, 10>>
    IN
    LET FranchiseHeaders ==
            <<"PLAYER_ID", "PLAYER", "GP", "PTS", "REB", "AST", "STL", "BLK", "TOV">>
    IN
    LET FranchiseTable(franchise, n, headers) ==
            [name |-> "FranchisePlayers", headers |-> Some(headers),
             rowSet |-> Some([k \in 1..n |-> FranchiseRow(franchise, k)])]
    IN
    {[thrown |-> TRUE]}
    \cup {[thrown |-> FALSE, payload |-> p] :
            p \in {[resultSets |-> Absent, resultSet |-> Absent],
                   [resultSets |-> Some(<<>>), resultSet |-> Absent],
                   [resultSets |-> Some(<<[name |-> "FranchisePlayers", headers |-> Absent,
                                          rowSet |-> Some(<<>>)]>>),
                    resultSet |-> Absent],
                   [resultSets |-> Some(<<FranchiseTable(t, 2, <<"PLAYER", "GP", "PTS">>)>>),
                    resultSet |-> Absent],
                   [resultSets |-> Some(<<FranchiseTable(t, 0, FranchiseHeaders)>>),
                    resultSet |-> Absent],
                   [resultSets |-> Some(<<[name |-> "FranchisePlayers",
                                          headers |-> Some(FranchiseHeaders),
                                          rowSet |-> Some(<< <<7, <<" ">>, 1>>, <<>> >>)]>>),
                    resultSet |-> Absent],
                   [resultSets |-> Absent,
                    resultSet |-> Some(FranchiseTable(t, 1, <<"Person_Id", "player_name", "GP">>))]}
            \cup {[resultSets |-> Some(<<FranchiseTable(t, n, FranchiseHeaders)>>),
                   resultSet |-> Absent] : n \in {2, MaxRows}}}

(***************************************************************************)
(* scripts/sync-all-time-data.ts: getPlayerMeta                            *)
(* A promise of getPlayerMeta is [playerId, pending, status, reactions]:   *)
(* pending are the fetches of Promise.all that have not settled, reactions *)
(* the workers whose mapper call awaits the promise, in the order of their *)
(* awaits.  A cache is [byId, promises]: metaByPlayerId and the promises   *)
(* created so far.                                                         *)
(***************************************************************************)
\* The promise of the async function that starts the three fetches.
newPromise(playerId) ==
    LET MetaFetches == {"commonplayerinfo", "playercareerstats", "playerawards"}
    IN
    [playerId |-> playerId, pending |-> MetaFetches, status |-> "pending", reactions |-> <<>>]

\* getPlayerMeta without the lookup in metaByPlayerId.
getPlayerMetaUncached(cache, playerId) ==
    [byId |-> [id \in DOMAIN cache.byId \cup {playerId} |->
                  IF id = playerId THEN Len(cache.promises) + 1 ELSE cache.byId[id]],
     promises |-> Append(cache.promises, newPromise(playerId)),
     promise |-> Len(cache.promises) + 1]

\* getPlayerMeta with a cache that forgets the promises that rejected.
getPlayerMetaRetried(cache, playerId) ==
    IF /\ playerId \in DOMAIN cache.byId
       /\ cache.promises[cache.byId[playerId]].status # "rejected"
    THEN [byId |-> cache.byId, promises |-> cache.promises, promise |-> cache.byId[playerId]]
    ELSE [byId |-> [id \in DOMAIN cache.byId \cup {playerId} |->
                       IF id = playerId THEN Len(cache.promises) + 1 ELSE cache.byId[id]],
          promises |-> Append(cache.promises, newPromise(playerId)),
          promise |-> Len(cache.promises) + 1]

\* getPlayerMeta: the cache afterwards, and the promise returned.
getPlayerMeta(cache, playerId) ==
    IF playerId \in DOMAIN cache.byId
    THEN [byId |-> cache.byId, promises |-> cache.promises, promise |-> cache.byId[playerId]]
    ELSE [byId |-> [id \in DOMAIN cache.byId \cup {playerId} |->
                       IF id = playerId THEN Len(cache.promises) + 1 ELSE cache.byId[id]],
          promises |-> Append(cache.promises, newPromise(playerId)),
          promise |-> Len(cache.promises) + 1]

(***************************************************************************)
(* scripts/sync-all-time-data.ts: mapWithConcurrency                       *)
(* A worker is [state, index, promise, entry]: "awaiting" the promise of   *)
(* its mapper call, "settled" once the mapper call has a value (or, with   *)
(* thrown, an error), "returned" at the end of the list, "rejected".       *)
(* A frame is [cursor, workers, inFlight, queue, byId, promises]: inFlight *)
(* are the indices of the items whose mapper call has not settled, queue   *)
(* the continuations that are due, in the order they run: [kind, worker],  *)
(* of kind "mapper" (the mapper after its await) or "worker" (the worker   *)
(* after its await).                                                       *)
(***************************************************************************)
\* The entry of a worker whose mapper call has not settled (undefined).
NoEntry == [thrown |-> FALSE, value |-> [playerId |-> 0]]
IdleWorker == [state |-> "returned", index |-> 0, promise |-> 0, entry |-> NoEntry]

\* As many workers as there are items.
workerCountOfItems(limit, length) == length

\* Math.min(limit, items.length)
workerCount(limit, length) == Min(limit, length)

\* A turn of the worker loop that leaves the cursor where it is when it calls
\* the mapper.
takeNextKeepingCursor(frame, w, items) ==
    LET \* The mapper call of worker w awaits the promise: a reaction of the promise
        \* while it is pending, a continuation due at once when it has settled.
        awaitPromise(current, worker, index, got) ==
            [cursor |-> current.cursor,
             inFlight |-> current.inFlight \cup {index},
             invoked |-> Append(current.invoked, index),
             workers |-> [current.workers EXCEPT ![worker] =
                             [state |-> "awaiting", index |-> index,
                              promise |-> got.promise, entry |-> NoEntry]],
             queue |-> IF got.promises[got.promise].status = "pending" THEN current.queue
                       ELSE Append(current.queue, [kind |-> "mapper", worker |-> worker]),
             byId |-> got.byId,
             promises |-> IF got.promises[got.promise].status = "pending"
                          THEN [got.promises EXCEPT ![got.promise].reactions = Append(@, worker)]
                          ELSE got.promises]
    IN
    IF frame.cursor >= Len(items)
    THEN [frame EXCEPT !.cursor = frame.cursor + 1, !.workers[w] = IdleWorker]
    ELSE awaitPromise(frame, w, frame.cursor + 1,
                      getPlayerMeta([byId |-> frame.byId, promises |-> frame.promises],
                                    items[frame.cursor + 1].playerId))

\* const index = cursor; cursor += 1; then return, or call the mapper, which
\* runs up to `await getPlayerMeta(candidate.playerId)`.
takeNext(frame, w, items) ==
    LET \* The mapper call of worker w awaits the promise: a reaction of the promise
        \* while it is pending, a continuation due at once when it has settled.
        awaitPromise(current, worker, index, got) ==
            [cursor |-> current.cursor + 1,
             inFlight |-> current.inFlight \cup {index},
             invoked |-> Append(current.invoked, index),
             workers |-> [current.workers EXCEPT ![worker] =
                             [state |-> "awaiting", index |-> index,
                              promise |-> got.promise, entry |-> NoEntry]],
             queue |-> IF got.promises[got.promise].status = "pending" THEN current.queue
                       ELSE Append(current.queue, [kind |-> "mapper", worker |-> worker]),
             byId |-> got.byId,
             promises |-> IF got.promises[got.promise].status = "pending"
                          THEN [got.promises EXCEPT ![got.promise].reactions = Append(@, worker)]
                          ELSE got.promises]
    IN
    IF frame.cursor >= Len(items)
    THEN [frame EXCEPT !.cursor = frame.cursor + 1, !.workers[w] = IdleWorker]
    ELSE awaitPromise(frame, w, frame.cursor + 1,
                      getPlayerMeta([byId |-> frame.byId, promises |-> frame.promises],
                                    items[frame.cursor + 1].playerId))

\* Array.from({ length }, () => worker()): the workers start one after the
\* other, each running up to its first await.
RECURSIVE startWorkers(_, _, _)
startWorkers(frame, w, items) ==
    IF w > Len(frame.workers) THEN frame
    ELSE startWorkers(takeNext(frame, w, items), w + 1, items)

\* The mapper without its catch block.
mapperOutcomeUncaught(candidate, teamAbbr, promise, leaderCounts) ==
    IF promise.status = "fulfilled"
    THEN [thrown |-> FALSE,
          value |-> enrichFromMeta(candidate, TEAM_ID_BY_ABBR[teamAbbr],
                                   getFallbackSeed(teamAbbr, candidate.playerName),
                                   playerMetaOf(candidate.playerId), leaderCounts)]
    ELSE [thrown |-> TRUE]

\* What the mapper call of a candidate settles with, given the promise of
\* getPlayerMeta it awaited.
mapperOutcome(candidate, teamAbbr, promise, leaderCounts) ==
    IF promise.status = "fulfilled"
    THEN [thrown |-> FALSE,
          value |-> enrichFromMeta(candidate, TEAM_ID_BY_ABBR[teamAbbr],
                                   getFallbackSeed(teamAbbr, candidate.playerName),
                                   playerMetaOf(candidate.playerId), leaderCounts)]
    ELSE [thrown |-> FALSE,
          value |-> enrichFromFallback(candidate,
                                       getFallbackSeed(teamAbbr, candidate.playerName))]

(***************************************************************************)
(* scripts/sync-all-time-data.ts: main and buildTeamSeed                   *)
(* job is the frame of the buildTeamSeed call in progress, pool the frame  *)
(* of its mapWithConcurrency call, pool.invoked the indices the mapper was  *)
(* called for, in the order of the calls.  job.promisesBefore is the number of *)
(* promises getPlayerMeta had created when buildTeamSeed was called,       *)
(* job.response what the service answered to the franchise-players fetch.  *)
(***************************************************************************)
EnrichmentConcurrency == 5
candidateLimit == 22

NoJob == [phase |-> "none"]
NoPool == [active |-> FALSE]

\* seedByTeam[team.abbr] = await buildTeamSeed(team, teamId, candidateLimit),
\* up to the await of fetchFranchisePlayers.
BuildTeamSeed ==
    LET \* The franchise main turns to next.
        teamsDone == Cardinality(DOMAIN seedByTeam)
    IN
    /\ job.phase = "none"
    /\ teamsDone < Len(typedTeams)
    /\ job' = [phase |-> "franchisePlayers",
               team |-> typedTeams[teamsDone + 1],
               fallback |-> slice(IF typedTeams[teamsDone + 1] \in DOMAIN seed
                                  THEN seed[typedTeams[teamsDone + 1]] ELSE <<>>,
                                  0, SeedSize),
               promisesBefore |-> Len(promises)]
    /\ UNCHANGED <<metaByPlayerId, promises, pool, seedByTeam>>
    /\ UNCHANGED <<dataVars, scoringVars, fetchJsonCall, draftBoard>>

\* buildTeamSeed returns seedPlayers.
returnedJob(seedPlayers, response) ==
    [phase |-> "returned", team |-> job.team, fallback |-> job.fallback,
     promisesBefore |-> job.promisesBefore,
     response |-> response, seedPlayers |-> seedPlayers]

\* Rows that cannot be used: franchiseRows.length === 0 is not asked.
rosterUsableWhenParsed(fetched) == ~fetched.thrown

\* Whether buildTeamSeed goes on with the rows: fetchFranchisePlayers did
\* not throw, and franchiseRows.length is not 0.
rosterUsable(fetched) == ~fetched.thrown /\ Len(fetched.rows) # 0

\* fetchFranchisePlayers settles: buildTeamSeed returns the fallback, or goes
\* on to await fetchFranchiseLeaderCounts.
FranchisePlayersSettled ==
    /\ job.phase = "franchisePlayers"
    /\ \E response \in FranchisePlayersResponses(IF job.team = ATL THEN 1 ELSE 2) :
          LET Continue(fetched) ==
                  IF ~rosterUsable(fetched) THEN job' = returnedJob(job.fallback, response)
                  ELSE job' = [phase |-> "leaderCounts", team |-> job.team,
                               fallback |-> job.fallback,
                               promisesBefore |-> job.promisesBefore,
                               response |-> response,
                               franchiseRows |-> fetched.rows]
          IN Continue(IF response.thrown THEN [thrown |-> TRUE]
                      ELSE franchisePlayerRows(response.payload))
    /\ UNCHANGED <<metaByPlayerId, promises, pool, seedByTeam>>
    /\ UNCHANGED <<dataVars, scoringVars, fetchJsonCall, draftBoard>>

\* fetchFranchiseLeaderCounts settles: the candidates are chosen and
\* mapWithConcurrency starts its workers.
LeaderCountsSettled ==
    LET \* [...franchiseRows].sort(by initialFranchiseImpact, descending).slice(0, candidateLimit)
        candidatesOf(franchiseRows) ==
            slice(SortBy(franchiseRows,
                         [k \in 1..Len(franchiseRows) |-> initialFranchiseImpact(franchiseRows[k])],
                         TRUE),
                  0, candidateLimit)
    IN
    LET \* What fetchFranchiseLeaderCounts gives: it throws, or a count per player id.
        LeaderCountsResponses ==
            {[thrown |-> TRUE], [thrown |-> FALSE, counts |-> (1 :> 2)]}
    IN
    /\ job.phase = "leaderCounts"
    /\ \E response \in LeaderCountsResponses :
          LET Start(candidates, leaderCounts) ==
                  LET Started(frame) ==
                          /\ pool' = [active |-> TRUE, items |-> candidates,
                                      cursor |-> frame.cursor, workers |-> frame.workers,
                                      inFlight |-> frame.inFlight, queue |-> frame.queue,
                                      invoked |-> frame.invoked,
                                      results |-> <<>>]
                          /\ metaByPlayerId' = frame.byId
                          /\ promises' = frame.promises
                  IN /\ job' = [phase |-> "enriching", team |-> job.team,
                                fallback |-> job.fallback,
                                promisesBefore |-> job.promisesBefore,
                                response |-> job.response,
                                leaderCounts |-> leaderCounts]
                     /\ Started(startWorkers(
                            [cursor |-> 0, inFlight |-> {}, queue |-> <<>>, invoked |-> <<>>,
                             workers |-> [w \in 1..workerCount(EnrichmentConcurrency,
                                                               Len(candidates))
                                             |-> IdleWorker],
                             byId |-> metaByPlayerId, promises |-> promises],
                            1, candidates))
          IN Start(candidatesOf(job.franchiseRows),
                   IF response.thrown THEN <<>> ELSE response.counts)
    /\ UNCHANGED seedByTeam
    /\ UNCHANGED <<dataVars, scoringVars, fetchJsonCall, draftBoard>>

\* One of the three fetches of a pending promise settles, with a value or
\* with the error of its last attempt.  The response is delivered when no
\* continuation is due.
MetaFetchSettled ==
    LET \* One fetch of a promise settles: Promise.all rejects with the first
        \* failure (the other fetches are no longer of interest) and fulfils with
        \* the last success.  The reactions of a settled promise are queued.
        promiseAfterFetch(promise, fetched, ok) ==
            IF ~ok
            THEN [playerId |-> promise.playerId, pending |-> {}, status |-> "rejected",
                  reactions |-> <<>>]
            ELSE IF promise.pending = {fetched}
            THEN [playerId |-> promise.playerId, pending |-> {}, status |-> "fulfilled",
                  reactions |-> <<>>]
            ELSE [promise EXCEPT !.pending = @ \ {fetched}]
    IN
    /\ pool.active
    /\ pool.queue = <<>>
    /\ \E p \in 1..Len(promises) :
          /\ promises[p].status = "pending"
          /\ \E fetched \in promises[p].pending, ok \in BOOLEAN :
                LET Settled(after) ==
                        /\ promises' = [promises EXCEPT ![p] = after]
                        /\ pool' = IF after.status = "pending" THEN pool
                                   ELSE [pool EXCEPT !.queue =
                                            [k \in 1..Len(promises[p].reactions) |->
                                                [kind |-> "mapper",
                                                 worker |-> promises[p].reactions[k]]]]
                IN Settled(promiseAfterFetch(promises[p], fetched, ok))
    /\ UNCHANGED <<metaByPlayerId, job, seedByTeam>>
    /\ UNCHANGED <<dataVars, scoringVars, fetchJsonCall, draftBoard>>

\* The first continuation due is that of a mapper call: it settles, in its
\* try branch or its catch branch, and the worker awaiting it is due.
MapperSettled ==
    /\ pool.active
    /\ pool.queue # <<>>
    /\ Head(pool.queue).kind = "mapper"
    /\ LET Settle(w) ==
               pool' = [pool EXCEPT
                           !.workers[w].state = "settled",
                           !.workers[w].entry =
                               mapperOutcome(pool.items[pool.workers[w].index], job.team,
                                             promises[pool.workers[w].promise],
                                             job.leaderCounts),
                           !.inFlight = @ \ {pool.workers[w].index},
                           !.queue = Append(Tail(@), [kind |-> "worker", worker |-> w])]
       IN Settle(Head(pool.queue).worker)
    /\ UNCHANGED <<metaByPlayerId, promises, job, seedByTeam>>
    /\ UNCHANGED <<dataVars, scoringVars, fetchJsonCall, draftBoard>>

\* results[index] = await mapper(...): the first continuation due is that of
\* a worker: it stores the entry and runs its loop again; an error of the
\* mapper rejects the worker, and with it mapWithConcurrency and
\* buildTeamSeed.
WorkerContinued ==
    /\ pool.active
    /\ job.phase = "enriching"
    /\ pool.queue # <<>>
    /\ Head(pool.queue).kind = "worker"
    /\ LET Continue(w) ==
               IF pool.workers[w].entry.thrown
               THEN /\ pool' = [pool EXCEPT !.workers[w].state = "rejected",
                                            !.queue = Tail(@)]
                    /\ job' = [phase |-> "rejected", team |-> job.team]
                    /\ UNCHANGED <<metaByPlayerId, promises>>
               ELSE LET Taken(frame) ==
                            /\ pool' = [pool EXCEPT
                                           !.cursor = frame.cursor,
                                           !.workers = frame.workers,
                                           !.inFlight = frame.inFlight,
                                           !.queue = frame.queue,
                                           !.invoked = frame.invoked,
                                           !.results =
                                               [i \in DOMAIN pool.results
                                                         \cup {pool.workers[w].index} |->
                                                   IF i = pool.workers[w].index
                                                   THEN pool.workers[w].entry.value
                                                   ELSE pool.results[i]]]
                            /\ metaByPlayerId' = frame.byId
                            /\ promises' = frame.promises
                    IN /\ Taken(takeNext([cursor |-> pool.cursor, workers |-> pool.workers,
                                          inFlight |-> pool.inFlight,
                                          queue |-> Tail(pool.queue),
                                          invoked |-> pool.invoked,
                                          byId |-> metaByPlayerId, promises |-> promises],
                                         w, pool.items))
                       /\ UNCHANGED job
       IN Continue(Head(pool.queue).worker)
    /\ UNCHANGED seedByTeam
    /\ UNCHANGED <<dataVars, scoringVars, fetchJsonCall, draftBoard>>

\* await Promise.all(workers) is over: the candidates are ranked, the seed
\* players backfilled, and buildTeamSeed returns.
EnrichmentDone ==
    /\ pool.active
    /\ job.phase = "enriching"
    /\ \A w \in 1..Len(pool.workers) : pool.workers[w].state = "returned"
    /\ job' = returnedJob(seedPlayersOf(pool.results, job.fallback), job.response)
    /\ pool' = [active |-> FALSE, items |-> pool.items, invoked |-> pool.invoked,
                results |-> pool.results]
    /\ UNCHANGED <<metaByPlayerId, promises, seedByTeam>>
    /\ UNCHANGED <<dataVars, scoringVars, fetchJsonCall, draftBoard>>

\* main stores what buildTeamSeed returned and turns to the next franchise.
TeamSeedStored ==
    /\ job.phase = "returned"
    /\ seedByTeam' = [t \in DOMAIN seedByTeam \cup {job.team} |->
                         IF t = job.team THEN job.seedPlayers ELSE seedByTeam[t]]
    /\ job' = NoJob
    /\ pool' = NoPool
    /\ UNCHANGED <<metaByPlayerId, promises>>
    /\ UNCHANGED <<dataVars, scoringVars, fetchJsonCall, draftBoard>>

(***************************************************************************)
(* scripts/sync-all-time-data.ts: fetchJson                                *)
(* fetchJsonCall is the frame of one call:                                 *)
(*   [phase, retries, attempt, elapsed, errors, slept]                     *)
(* phase is "fetching" while `await fetch(...)` is pending, "sleeping"     *)
(* while `await sleep(...)` is, "returned" or "thrown" at the end.         *)
(* elapsed counts the time of the pending fetch in steps of a third of     *)
(* FETCH_TIMEOUT_MS; errors are the errors caught so far, one per failed   *)
(* attempt; slept are the delays (ms) of the sleeps that are over.         *)
(***************************************************************************)
TimeoutSteps == 3
BackoffMs == 300

NoFetch == [phase |-> "idle"]

\* The delay after a failed attempt that does not grow with the attempts.
backoffConstant(attempt) == BackoffMs

\* sleep(attempt * 300)
backoff(attempt) == attempt * BackoffMs

\* The head of the for loop: the next attempt starts, or lastError is thrown.
loopHead(retries, attempt, errors, slept) ==
    IF attempt <= retries
    THEN [phase |-> "fetching", retries |-> retries, attempt |-> attempt, elapsed |-> 0,
          errors |-> errors, slept |-> slept]
    ELSE [phase |-> "thrown", retries |-> retries, attempt |-> attempt, elapsed |-> 0,
          errors |-> errors, slept |-> slept,
          error |-> IF errors = <<>> THEN [kind |-> "undefined", attempt |-> 0]
                    ELSE errors[Len(errors)]]

\* fetchJson(url, retries) is called, with the default or with a number.
FetchJson ==
    /\ fetchJsonCall.phase = "idle"
    /\ \E retries \in 0..MaxRetries :
          fetchJsonCall' = loopHead(retries, 1, <<>>, <<>>)
    /\ UNCHANGED <<dataVars, scoringVars, syncVars, draftBoard>>

\* Time passes while the fetch is pending; the timer aborts it at the latest
\* after FETCH_TIMEOUT_MS.
FetchTimePasses ==
    /\ fetchJsonCall.phase = "fetching"
    /\ fetchJsonCall.elapsed < TimeoutSteps
    /\ fetchJsonCall' = [fetchJsonCall EXCEPT !.elapsed = @ + 1]
    /\ UNCHANGED <<dataVars, scoringVars, syncVars, draftBoard>>

\* The catch block: the error is remembered and the sleep begins.
caught(frame, kind) ==
    [frame EXCEPT !.phase = "sleeping",
                  !.errors = Append(@, [kind |-> kind, attempt |-> frame.attempt])]

\* The fetch resolves with an OK response: fetchJson returns response.json()
\* without awaiting it, so the catch block does not see a body that fails to
\* parse: the promise of fetchJson settles as that of response.json() does.
FetchOk ==
    /\ fetchJsonCall.phase = "fetching"
    /\ fetchJsonCall.elapsed < TimeoutSteps
    /\ \E body \in {"fulfilled", "rejected"} :
          fetchJsonCall' = [phase |-> "returned", retries |-> fetchJsonCall.retries,
                            attempt |-> fetchJsonCall.attempt,
                            elapsed |-> fetchJsonCall.elapsed,
                            errors |-> fetchJsonCall.errors,
                            slept |-> fetchJsonCall.slept, json |-> body]
    /\ UNCHANGED <<dataVars, scoringVars, syncVars, draftBoard>>

\* The fetch resolves with a response that is not OK, or rejects.
FetchFailed ==
    /\ fetchJsonCall.phase = "fetching"
    /\ fetchJsonCall.elapsed < TimeoutSteps
    /\ \E kind \in {"http", "network"} :
          fetchJsonCall' = caught(fetchJsonCall, kind)
    /\ UNCHANGED <<dataVars, scoringVars, syncVars, draftBoard>>

\* The timer fires: controller.abort() rejects the pending fetch.
FetchAborted ==
    /\ fetchJsonCall.phase = "fetching"
    /\ fetchJsonCall.elapsed = TimeoutSteps
    /\ fetchJsonCall' = caught(fetchJsonCall, "abort")
    /\ UNCHANGED <<dataVars, scoringVars, syncVars, draftBoard>>

\* The sleep is over: the finally block, attempt += 1, and the loop head.
FetchSleepOver ==
    /\ fetchJsonCall.phase = "sleeping"
    /\ fetchJsonCall' = loopHead(fetchJsonCall.retries, fetchJsonCall.attempt + 1,
                                 fetchJsonCall.errors,
                                 Append(fetchJsonCall.slept, backoff(fetchJsonCall.attempt)))
    /\ UNCHANGED <<dataVars, scoringVars, syncVars, draftBoard>>

(***************************************************************************)
(* The state after the modules are loaded                                  *)
(***************************************************************************)
NoCall == [op |-> "none"]
NoResult == [op |-> "none"]
NoMemo == [set |-> FALSE]

Init ==
    LET \* The seed lists the model starts from: short lists, and lists around the
        \* roster size.
        SeedLenChoices == {0, 1, 2} \cup {n \in 0..MaxSeedLen : n >= MaxSeedLen - 2}
    IN
    /\ \E n \in SeedLenChoices :
           seed \in {[t \in {ATL} |-> SeedList(1, n)],
                     [t \in TeamSet |-> IF t = ATL THEN SeedList(1, n) ELSE SeedList(2, 3)]}
    /\ rosterByTeam = InitRosterByTeam(seed)
    /\ rosterNamesByTeam = InitRosterNamesByTeam(rosterByTeam)
    /\ statsByTeamPlayer = InitStatsByTeamPlayer(rosterByTeam)
    /\ slotsByTeamPlayer = InitSlotsByTeamPlayer(rosterByTeam)
    /\ globalMetricDistributions = InitDistributions(rosterByTeam)
    /\ globalMetricRanges = InitRanges(globalMetricDistributions)
    /\ pc = "idle"
    /\ call = NoCall
    /\ result = NoResult
    /\ lookups = <<>>
    /\ memo = NoMemo
    /\ metaByPlayerId = <<>>
    /\ promises = <<>>
    /\ job = NoJob
    /\ pool = NoPool
    /\ seedByTeam = <<>>
    /\ fetchJsonCall = NoFetch
    /\ draftBoard = [mounted |-> FALSE]

(***************************************************************************)
(* What the reading functions write: nothing.  lookupPlayerStats returns   *)
(* the projected baseline without storing it.                              *)
(***************************************************************************)
\* A lookup that stores the baseline it projected under the key.
statsAfterLookupsCaching(lookedUp) ==
    [key \in DOMAIN statsByTeamPlayer \cup {lookedUp[i] : i \in 1..Len(lookedUp)} |->
        IF key \in DOMAIN statsByTeamPlayer THEN statsByTeamPlayer[key]
        ELSE fallbackByPrimarySlot(LINEUP_SLOTS[1])]

statsAfterLookups(lookedUp) == statsByTeamPlayer

(***************************************************************************)
(* Calls.  A caller invokes one exported function at a time (the module is *)
(* synchronous and single-threaded), the function runs, and it returns.    *)
(***************************************************************************)
Invoke ==
    /\ pc = "idle"
    /\ \/ \E picks \in Lineups : call' = [op |-> "scoreLineup", picks |-> picks]
       \/ \E stats \in StatsChoices : call' = [op |-> "scorePlayer", stats |-> stats]
       \/ \E t \in QueryTeams, nm \in QueryNames :
              call' = [op |-> "lookupPlayerStats", teamAbbr |-> t, playerName |-> nm]
       \/ \E t \in QueryTeams : call' = [op |-> "getRosterByTeam", teamAbbr |-> t]
       \/ \E t \in QueryTeams, nm \in QueryNames :
              call' = [op |-> "getPlayerEligibleSlots", teamAbbr |-> t, playerName |-> nm]
       \/ \E m \in Metrics : \E v \in ProbeValues(m) :
              call' = [op |-> "normalizePlayerMetricGlobally", metric |-> m, value |-> v]
       \/ \E pop \in Populations, v \in 0..4 :
              call' = [op |-> "normalizeByDistribution", value |-> v, sortedValues |-> pop]
    /\ pc' = "called"
    /\ UNCHANGED <<dataVars, result, lookups, memo>>
    /\ UNCHANGED <<syncVars, fetchJsonCall, draftBoard>>

RECURSIVE Flatten(_)
Flatten(seqs) == IF seqs = <<>> THEN <<>> ELSE Head(seqs) \o Flatten(Tail(seqs))

ScoreLineup ==
    /\ pc = "called" /\ call.op = "scoreLineup"
    /\ result' = scoreLineup(call.picks)
    /\ lookups' = Flatten([i \in 1..Len(call.picks) |-> scorePick(call.picks[i]).lookedUp])
    /\ statsByTeamPlayer' = statsAfterLookups(lookups')
    /\ pc' = "returned"
    /\ UNCHANGED <<seed, rosterByTeam, rosterNamesByTeam, slotsByTeamPlayer,
                   globalMetricRanges, globalMetricDistributions, call, memo>>
    /\ UNCHANGED <<syncVars, fetchJsonCall, draftBoard>>

ScorePlayer ==
    /\ pc = "called" /\ call.op = "scorePlayer"
    /\ result' = scorePlayer(call.stats)
    /\ pc' = "returned"
    /\ UNCHANGED <<dataVars, call, lookups, memo>>
    /\ UNCHANGED <<syncVars, fetchJsonCall, draftBoard>>

LookupPlayerStats ==
    /\ pc = "called" /\ call.op = "lookupPlayerStats"
    /\ result' = lookupPlayerStats(call.teamAbbr, call.playerName)
    /\ lookups' = <<makeTeamPlayerKey(call.teamAbbr, call.playerName)>>
    /\ statsByTeamPlayer' = statsAfterLookups(lookups')
    /\ pc' = "returned"
    /\ UNCHANGED <<seed, rosterByTeam, rosterNamesByTeam, slotsByTeamPlayer,
                   globalMetricRanges, globalMetricDistributions, call, memo>>
    /\ UNCHANGED <<syncVars, fetchJsonCall, draftBoard>>

GetRosterByTeam ==
    /\ pc = "called" /\ call.op = "getRosterByTeam"
    /\ result' = getRosterByTeam(call.teamAbbr)
    /\ pc' = "returned"
    /\ UNCHANGED <<dataVars, call, lookups, memo>>
    /\ UNCHANGED <<syncVars, fetchJsonCall, draftBoard>>

GetPlayerEligibleSlots ==
    /\ pc = "called" /\ call.op = "getPlayerEligibleSlots"
    /\ result' = getPlayerEligibleSlots(call.teamAbbr, call.playerName)
    /\ pc' = "returned"
    /\ UNCHANGED <<dataVars, call, lookups, memo>>
    /\ UNCHANGED <<syncVars, fetchJsonCall, draftBoard>>

NormalizePlayerMetricGlobally ==
    /\ pc = "called" /\ call.op = "normalizePlayerMetricGlobally"
    /\ result' = normalizePlayerMetricGlobally(call.metric, call.value)
    /\ pc' = "returned"
    /\ UNCHANGED <<dataVars, call, lookups, memo>>
    /\ UNCHANGED <<syncVars, fetchJsonCall, draftBoard>>

NormalizeByDistribution ==
    /\ pc = "called" /\ call.op = "normalizeByDistribution"
    /\ result' = normalizeByDistribution(call.value, call.sortedValues)
    /\ pc' = "returned"
    /\ UNCHANGED <<dataVars, call, lookups, memo>>
    /\ UNCHANGED <<syncVars, fetchJsonCall, draftBoard>>

\* The caller takes the result; the next call can be made.  memo.between
\* records that a call was made after the remembered one.
Return ==
    /\ pc = "returned"
    /\ pc' = "idle"
    /\ call' = NoCall
    /\ result' = NoResult
    /\ lookups' = <<>>
    /\ memo' = IF memo.set THEN [memo EXCEPT !.between = TRUE] ELSE memo
    /\ UNCHANGED dataVars
    /\ UNCHANGED <<syncVars, fetchJsonCall, draftBoard>>

\* As Return, the caller keeping the result of a probe lineup.
Remember ==
    /\ pc = "returned"
    /\ call.op = "scoreLineup"
    /\ call.picks \in ProbeLineups
    /\ ~memo.set
    /\ memo' = [set |-> TRUE, picks |-> call.picks, result |-> result, between |-> FALSE]
    /\ pc' = "idle"
    /\ call' = NoCall
    /\ result' = NoResult
    /\ lookups' = <<>>
    /\ UNCHANGED dataVars
    /\ UNCHANGED <<syncVars, fetchJsonCall, draftBoard>>

Next ==
    \/ Invoke
    \/ ScoreLineup
    \/ ScorePlayer
    \/ LookupPlayerStats
    \/ GetRosterByTeam
    \/ GetPlayerEligibleSlots
    \/ NormalizePlayerMetricGlobally
    \/ NormalizeByDistribution
    \/ Return
    \/ Remember

Spec == Init /\ [][Next]_vars

(***************************************************************************)
(* The data refresh: scripts/sync-all-time-data.ts run over the seed.  The *)
(* fallback lists are those of the seed file, the fourth name written with *)
(* a space.                                                                *)
(***************************************************************************)
SyncInit ==
    LET FallbackSeedList(t, n) ==
            LET SpacedName == <<"p", "0", " ", "4">>
            IN
            [i \in 1..n |-> IF i = 4 THEN [SeedPlayer(t, i) EXCEPT !.name = SpacedName]
                            ELSE SeedPlayer(t, i)]
    IN
    /\ \E n \in {0, 2, MaxSeedLen} :
           seed = [t \in TeamSet |-> IF t = ATL THEN FallbackSeedList(1, n)
                                     ELSE FallbackSeedList(2, 3)]
    /\ rosterByTeam = InitRosterByTeam(seed)
    /\ rosterNamesByTeam = InitRosterNamesByTeam(rosterByTeam)
    /\ statsByTeamPlayer = InitStatsByTeamPlayer(rosterByTeam)
    /\ slotsByTeamPlayer = InitSlotsByTeamPlayer(rosterByTeam)
    /\ globalMetricDistributions = InitDistributions(rosterByTeam)
    /\ globalMetricRanges = InitRanges(globalMetricDistributions)
    /\ pc = "idle"
    /\ call = NoCall
    /\ result = NoResult
    /\ lookups = <<>>
    /\ memo = NoMemo
    /\ metaByPlayerId = <<>>
    /\ promises = <<>>
    /\ job = NoJob
    /\ pool = NoPool
    /\ seedByTeam = <<>>
    /\ fetchJsonCall = NoFetch
    /\ draftBoard = [mounted |-> FALSE]

SyncNext ==
    \/ BuildTeamSeed
    \/ FranchisePlayersSettled
    \/ LeaderCountsSettled
    \/ MetaFetchSettled
    \/ MapperSettled
    \/ WorkerContinued
    \/ EnrichmentDone
    \/ TeamSeedStored

SyncSpec == SyncInit /\ [][SyncNext]_vars

(***************************************************************************)
(* One call of fetchJson                                                   *)
(***************************************************************************)
FetchNext ==
    \/ FetchJson
    \/ FetchTimePasses
    \/ FetchOk
    \/ FetchFailed
    \/ FetchAborted
    \/ FetchSleepOver

FetchSpec == SyncInit /\ [][FetchNext]_vars


(***************************************************************************)
(* Properties of the scoring engine                                        *)
(***************************************************************************)
ScoreLineupReturned == pc = "returned" /\ call.op = "scoreLineup"

\* C1: for every lineup passed to scoreLineup, whatever its length and its
\* mix of penalty, rostered and unknown picks, the returned
\* chemistry.multiplier lies between 1.0 and 2.0 (10 and 20 in deci).
MultiplierBounded ==
    ScoreLineupReturned =>
        /\ 10 <= result.chemistry.multiplier
        /\ result.chemistry.multiplier <= 20

\* A full lineup with a penalty pick, an unknown player and a rostered
\* player has been scored, its multiplier above 1.2.
MultiplierBoundedWitness ==
    /\ ScoreLineupReturned
    /\ Len(call.picks) = MaxPicks
    /\ \E i \in 1..Len(call.picks) : call.picks[i].isPenalty
    /\ \E i \in 1..Len(call.picks) : result.playerScores[i].usedFallback
    /\ \E i \in 1..Len(call.picks) :
           ~call.picks[i].isPenalty /\ ~result.playerScores[i].usedFallback
    /\ result.chemistry.multiplier > 12

\* C2 as stated: the returned multiplier equals 1 + (the returned
\* chemistryScore) / 100, clamped to [1, 2].  Both sides in 1/10000.
MultiplierEqualsReturnedScore ==
    ScoreLineupReturned =>
        1000 * result.chemistry.multiplier
            = clamp(10000 + 10 * result.chemistry.chemistryScore, 10000, 20000)

\* C2 as amended: the returned multiplier is a multiple of 0.1 in [1, 2]
\* that differs from 1 + (the returned chemistryScore) / 100 by at most
\* 0.0505: the multiplier is computed from the unrounded chemistryScore and
\* then rounded to one decimal on its own.
MultiplierRoundsScore ==
    ScoreLineupReturned =>
        /\ result.chemistry.multiplier \in 10..20
        /\ Abs(1000 * result.chemistry.multiplier
                   - (10000 + 10 * result.chemistry.chemistryScore)) <= 505

\* A lineup has been scored whose returned multiplier is not
\* 1 + chemistryScore / 100 of the returned chemistryScore.
MultiplierRoundsScoreWitness ==
    /\ ScoreLineupReturned
    /\ Len(call.picks) > 0
    /\ result.chemistry.chemistryScore % 100 # 0
    /\ 1000 * result.chemistry.multiplier # 10000 + 10 * result.chemistry.chemistryScore

\* The contributions scoreLineup returned, summed (deci).
ReturnedContributionSum ==
    SeqSum([i \in 1..Len(result.playerScores) |-> result.playerScores[i].contribution])

\* C3: for a non-empty lineup, the returned baseTeamScore is the mean of the
\* returned contributions rounded (half up) to one decimal, and the returned
\* teamScore is the returned baseTeamScore times the returned multiplier,
\* rounded (half up) to one decimal.  b is x rounded iff b - 1/2 <= x < b + 1/2.
TeamScoreFormula ==
    ScoreLineupReturned /\ Len(call.picks) > 0 =>
        /\ Len(result.playerScores) = Len(call.picks)
        /\ 2 * Len(call.picks) * result.baseTeamScore - Len(call.picks)
               <= 2 * ReturnedContributionSum
        /\ 2 * ReturnedContributionSum
               < 2 * Len(call.picks) * result.baseTeamScore + Len(call.picks)
        /\ 10 * result.teamScore - 5 <= result.baseTeamScore * result.chemistry.multiplier
        /\ result.baseTeamScore * result.chemistry.multiplier < 10 * result.teamScore + 5

\* A lineup of fewer than five picks has been scored, its mean contribution
\* not a multiple of 0.1 and its teamScore above its baseTeamScore.
TeamScoreFormulaWitness ==
    /\ ScoreLineupReturned
    /\ Len(call.picks) \in 2..(Len(LINEUP_SLOTS) - 1)
    /\ ReturnedContributionSum % Len(call.picks) # 0
    /\ result.baseTeamScore > 0
    /\ result.teamScore > result.baseTeamScore

\* The keys of the picks that are not penalty picks, in lineup order.
RECURSIVE KeysOfScoredPicks(_)
KeysOfScoredPicks(picks) ==
    IF picks = <<>> THEN <<>>
    ELSE (IF Head(picks).isPenalty THEN <<>>
          ELSE <<makeTeamPlayerKey(Head(picks).teamAbbr, Head(picks).playerName)>>)
         \o KeysOfScoredPicks(Tail(picks))

\* C4: a penalty pick, whatever its player and team, gets contribution 0,
\* all-zero normalized metrics and usedFallback = FALSE, the stats lookup is
\* made for the other picks only, and the role profile computeChemistry
\* builds for it is 0 in all seven dimensions.
PenaltyZeroing ==
    ScoreLineupReturned =>
        /\ lookups = KeysOfScoredPicks(call.picks)
        /\ \A i \in 1..Len(call.picks) :
               call.picks[i].isPenalty =>
                   /\ result.playerScores[i].contribution = 0
                   /\ result.playerScores[i].normalizedMetrics = ZERO_STATS
                   /\ result.playerScores[i].usedFallback = FALSE
                   /\ \A d \in RoleDimensions : roleProfiles(result.playerScores)[i][d] = 0

\* A lineup has been scored in which a penalty pick names a rostered player
\* and another pick, not a penalty, scored above 0 with the lookup made.
PenaltyZeroingWitness ==
    /\ ScoreLineupReturned
    /\ \E i, j \in 1..Len(call.picks) :
           /\ call.picks[i].isPenalty
           /\ isPlayerOnTeam(call.picks[i].teamAbbr, call.picks[i].playerName)
           /\ ~call.picks[j].isPenalty
           /\ result.playerScores[j].contribution > 0
           /\ roleProfiles(result.playerScores)[j].playmaking > 0
    /\ lookups # <<>>

GloballyReturned == pc = "returned" /\ call.op = "normalizePlayerMetricGlobally"
ByDistributionReturned == pc = "returned" /\ call.op = "normalizeByDistribution"

\* p <= q for percentiles p and q given as fractions.
PercentileLeq(p, q) == p.num * q.den <= q.num * p.den

\* C6: for the population of a metric and query values a < b, the percentile
\* of a is at most the percentile of b: the percentile returned for a value
\* lies between those of every smaller and every larger query value.
PercentileMonotone ==
    GloballyReturned =>
        \A other \in ProbeValues(call.metric) :
            /\ call.value < other =>
                   PercentileLeq(result,
                                 normalizePlayerMetricGlobally(call.metric, other))
            /\ other < call.value =>
                   PercentileLeq(normalizePlayerMetricGlobally(call.metric, other),
                                 result)

\* The percentile of a value between two values of a population of at least
\* 15 has been returned, above that of one query value and below that of
\* another.
PercentileMonotoneWitness ==
    /\ GloballyReturned
    /\ Len(globalMetricDistributions[call.metric]) >= RosterSize
    /\ \A i \in 1..Len(globalMetricDistributions[call.metric]) :
           globalMetricDistributions[call.metric][i] # call.value
    /\ \E a, b \in ProbeValues(call.metric) :
           /\ a < call.value /\ call.value < b
           /\ ~PercentileLeq(result, normalizePlayerMetricGlobally(call.metric, a))
           /\ ~PercentileLeq(normalizePlayerMetricGlobally(call.metric, b), result)

\* The population and the value of the percentile call that returned.
ReturnedPopulation ==
    IF call.op = "normalizePlayerMetricGlobally" THEN globalMetricDistributions[call.metric]
    ELSE call.sortedValues
CountLess == Cardinality({i \in 1..Len(ReturnedPopulation) : ReturnedPopulation[i] < call.value})
CountLeq == Cardinality({i \in 1..Len(ReturnedPopulation) : ReturnedPopulation[i] <= call.value})

\* C7 as stated: for a population of n >= 2 values, the percentile of V is
\* 100 * ((values < V) + (values <= V)) / 2 / (n - 1).
PercentileIsMidCount ==
    (GloballyReturned \/ ByDistributionReturned) /\ Len(ReturnedPopulation) >= 2 =>
        result.num * 2 * (Len(ReturnedPopulation) - 1)
            = 100 * (CountLess + CountLeq) * result.den

\* C7 as amended: for a population of n >= 2 values, the percentile of V is
\* 100 * (min(L, n - 1) + max(U - 1, 0)) / 2 / (n - 1), where L is the
\* number of values < V and U the number of values <= V: the mean of the
\* first and the last index V would take in the sorted population, over the
\* last index n - 1.
PercentileIsMidIndex ==
    (GloballyReturned \/ ByDistributionReturned) /\ Len(ReturnedPopulation) >= 2 =>
        result.num * 2 * (Len(ReturnedPopulation) - 1)
            = 100 * (Min(CountLess, Len(ReturnedPopulation) - 1) + Max(CountLeq - 1, 0))
                  * result.den

\* The percentile of a value that the population holds more than once, with
\* smaller values beside it, has been returned.
PercentileIsMidIndexWitness ==
    /\ GloballyReturned \/ ByDistributionReturned
    /\ Len(ReturnedPopulation) >= 3
    /\ CountLess >= 1
    /\ CountLeq >= CountLess + 2
    /\ result.num > 0

\* C8: over a population of 0 or 1 values the percentile lookup returns 50
\* for every query value, as the constant 50 / 1 and not as a quotient by
\* n - 1.
DegeneratePopulationNeutral ==
    (GloballyReturned \/ ByDistributionReturned) /\ Len(ReturnedPopulation) <= 1 =>
        result = [num |-> 50, den |-> 1]

\* The percentile of a value other than the only value of the population
\* has been returned.
DegeneratePopulationNeutralWitness ==
    /\ GloballyReturned \/ ByDistributionReturned
    /\ Len(ReturnedPopulation) = 1
    /\ call.value > ReturnedPopulation[1]
    /\ result.num = 50

(***************************************************************************)
(* Properties of the roster data                                           *)
(***************************************************************************)
LookupReturned == pc = "returned" /\ call.op = "lookupPlayerStats"

\* C9: lookupPlayerStats(team, name) returns usedFallback = TRUE exactly
\* when name is not on the roster of team; then the four stats are above 0,
\* seasonsUsed is ['FRANCHISE_BASELINE'] and projectedFromSeasons is 0;
\* otherwise the stats are those stored for a roster player of that name,
\* seasonsUsed is ['ALL_TIME_FRANCHISE'] and projectedFromSeasons is 1.
FallbackIffNotOnTeam ==
    LookupReturned =>
        /\ result.usedFallback = ~isPlayerOnTeam(call.teamAbbr, call.playerName)
        /\ result.usedFallback =>
               /\ \A m \in Metrics : result.stats[m] > 0
               /\ result.seasonsUsed = <<"FRANCHISE_BASELINE">>
               /\ result.projectedFromSeasons = 0
        /\ ~result.usedFallback =>
               /\ call.teamAbbr \in DOMAIN rosterByTeam
               /\ \E k \in 1..Len(rosterByTeam[call.teamAbbr]) :
                      /\ rosterByTeam[call.teamAbbr][k].name = call.playerName
                      /\ result.stats =
                             [bpm |-> rosterByTeam[call.teamAbbr][k].greatness.personalAccolades,
                              ws48 |-> rosterByTeam[call.teamAbbr][k].greatness.teamAccolades,
                              vorp |-> rosterByTeam[call.teamAbbr][k].greatness.boxStats,
                              epm |-> rosterByTeam[call.teamAbbr][k].greatness.advancedStats]
               /\ result.seasonsUsed = <<"ALL_TIME_FRANCHISE">>
               /\ result.projectedFromSeasons = 1

\* The lookup of a player under a franchise that does not list the player,
\* while another franchise does, has returned the baseline.
FallbackIffNotOnTeamWitness ==
    /\ LookupReturned
    /\ call.teamAbbr \in TeamSet
    /\ \E t \in TeamSet : isPlayerOnTeam(t, call.playerName)
    /\ result.usedFallback

RosterReturned == pc = "returned" /\ call.op = "getRosterByTeam"

\* Every entry of the roster returned has at least one eligible slot, each
\* one of the five lineup slots.
ReturnedSlotsValid ==
    \A k \in 1..Len(result) :
        /\ Len(result[k].eligibleSlots) >= 1
        /\ \A j \in 1..Len(result[k].eligibleSlots) : result[k].eligibleSlots[j] \in SlotSet

\* C10 as stated: for every franchise and every seed list, getRosterByTeam
\* returns exactly 15 entries, each with at least one eligible slot of the
\* five.
RosterHasFifteen ==
    RosterReturned /\ call.teamAbbr \in TeamSet =>
        Len(result) = RosterSize /\ ReturnedSlotsValid

\* C10 as amended: for every franchise, getRosterByTeam returns as many
\* entries as the seed list of the franchise has players, up to 15 (none for
\* a franchise without a seed list), each with at least one eligible slot of
\* the five.
RosterHasTopOfSeed ==
    RosterReturned /\ call.teamAbbr \in TeamSet =>
        /\ Len(result) = Min(RosterSize, Len(SeedOf(seed, call.teamAbbr)))
        /\ ReturnedSlotsValid

\* The roster of a franchise whose seed list has more than 15 players has
\* been returned, one entry eligible for all five slots.
RosterHasTopOfSeedWitness ==
    /\ RosterReturned
    /\ Len(SeedOf(seed, call.teamAbbr)) > RosterSize
    /\ Len(result) = RosterSize
    /\ \E k \in 1..Len(result) : result[k].eligibleSlots = LINEUP_SLOTS


(***************************************************************************)
(* Tenure.  computeGreatness is applied to the players of the seed lists   *)
(* when data.ts is loaded, and the ranking of buildTeamSeed to the         *)
(* enriched candidates of a franchise.  Here each is applied to players    *)
(* chosen freely: two players at one rank of two seed lists, and three     *)
(* enriched candidates of one franchise.                                   *)
(***************************************************************************)
InvokeGreatness ==
    LET GreatnessInputs ==
            LET TenureChampionships == {0, 1}
            IN
            LET TenureYears == {1, 2, 5, 6, 10}
            IN
            LET TenureCareers == {10, 25, 75}
            IN
            LET TenureRanks == {0, 14}
            IN
            {[rankIndex |-> r, yearsWithTeam |-> y, careerYears |-> c, championships |-> ch] :
                r \in TenureRanks, y \in TenureYears, c \in TenureCareers, ch \in TenureChampionships}
    IN
    /\ pc = "idle"
    /\ \E first \in GreatnessInputs, second \in GreatnessInputs :
          /\ first.yearsWithTeam <= first.careerYears
          /\ second.yearsWithTeam <= second.careerYears
          /\ call' = [op |-> "computeGreatness", inputs |-> <<first, second>>]
    /\ pc' = "called"
    /\ UNCHANGED <<dataVars, result, lookups, memo, syncVars, fetchJsonCall, draftBoard>>

ComputeGreatness ==
    /\ pc = "called" /\ call.op = "computeGreatness"
    /\ result' = [op |-> "computeGreatness",
                  value |-> [k \in 1..2 |->
                      computeGreatness(call.inputs[k].rankIndex, call.inputs[k].yearsWithTeam,
                                       call.inputs[k].careerYears, call.inputs[k].championships)]]
    /\ pc' = "returned"
    /\ UNCHANGED <<dataVars, call, lookups, memo, syncVars, fetchJsonCall, draftBoard>>

InvokeRanking ==
    LET EnrichedLists ==
            LET \* An enriched candidate as the catch branch of the mapper builds it from a
                \* fallback entry that has categoryRaw: the raws are those of the entry.
                EnrichedOf(playerId, level, yearsWithTeam, careerYears) ==
                    [playerId |-> playerId,
                     yearsWithTeam |-> yearsWithTeam,
                     careerYears |-> careerYears,
                     championships |-> 0,
                     personalAccoladesRaw |-> level * 40,
                     teamAccoladesRaw |-> 100 + level * 150,
                     statsRaw |-> 2000 + level * 3000,
                     advancedRaw |-> 200 + level * 100,
                     tenureRatio |-> tenureRatioOf(yearsWithTeam, careerYears),
                     franchiseScore |-> 0]
            IN
            {<<EnrichedOf(1, l1, y1, c), EnrichedOf(2, l2, y2, c), EnrichedOf(3, l3, 5, 10)>> :
                l1 \in {0, 1}, l2 \in {0, 1}, l3 \in {0, 2},
                y1 \in {1, 2, 10}, y2 \in {1, 2, 10}, c \in {10, 25}}
    IN
    /\ pc = "idle"
    /\ \E enriched \in EnrichedLists : call' = [op |-> "ranking", enriched |-> enriched]
    /\ pc' = "called"
    /\ UNCHANGED <<dataVars, result, lookups, memo, syncVars, fetchJsonCall, draftBoard>>

RankEnriched ==
    /\ pc = "called" /\ call.op = "ranking"
    /\ result' = [op |-> "ranking", value |-> rankedEntries(call.enriched)]
    /\ pc' = "returned"
    /\ UNCHANGED <<dataVars, call, lookups, memo, syncVars, fetchJsonCall, draftBoard>>

TenureNext ==
    \/ InvokeGreatness
    \/ ComputeGreatness
    \/ InvokeRanking
    \/ RankEnriched
    \/ Return

TenureSpec == Init /\ [][TenureNext]_vars

(***************************************************************************)
(* Properties of the data refresh                                          *)
(***************************************************************************)
\* buildTeamSeed has returned after enriching its candidates.
RankedReturned ==
    /\ job.phase = "returned"
    /\ ~job.response.thrown
    /\ rosterUsable(franchisePlayerRows(job.response.payload))

\* The seed players of the ranked candidates, before the backfill.
ReturnedRanked == seedPlayersOfRanked(rankedEntries(pool.results))

\* The least index of a fallback entry equal to the player, 0 without one.
FallbackIndex(player) ==
    IF \E i \in 1..Len(job.fallback) : job.fallback[i] = player
    THEN CHOOSE i \in 1..Len(job.fallback) :
             /\ job.fallback[i] = player
             /\ \A j \in 1..(i - 1) : job.fallback[j] # player
    ELSE 0

\* C11: when buildTeamSeed has ranked fewer than 15 candidates, what it
\* returns is the ranked players followed by players of the fallback list in
\* the order of that list; no appended player has the normalised name of a
\* player before it in the result; the appending stops only at 15 players or
\* when every fallback player is in the result or shares its normalised name
\* with a player of the result; and the result has at most 15 players.
BackfillFromFallback ==
    RankedReturned /\ Len(pool.results) < SeedSize =>
        /\ Len(job.seedPlayers) <= SeedSize
        /\ Len(ReturnedRanked) <= Len(job.seedPlayers)
        /\ SubSeq(job.seedPlayers, 1, Len(ReturnedRanked)) = ReturnedRanked
        /\ \A k \in (Len(ReturnedRanked) + 1)..Len(job.seedPlayers) :
              /\ FallbackIndex(job.seedPlayers[k]) > 0
              /\ \A j \in 1..(k - 1) :
                    normalizeName(job.seedPlayers[j].name)
                        # normalizeName(job.seedPlayers[k].name)
              /\ \A j \in (Len(ReturnedRanked) + 1)..(k - 1) :
                    FallbackIndex(job.seedPlayers[j]) < FallbackIndex(job.seedPlayers[k])
        /\ \/ Len(job.seedPlayers) = SeedSize
           \/ \A i \in 1..Len(job.fallback) :
                 \E j \in 1..Len(job.seedPlayers) :
                    normalizeName(job.seedPlayers[j].name) = normalizeName(job.fallback[i].name)

\* Six candidates were ranked, fallback players were appended up to 15, and
\* a fallback player was passed over whose name is spelt differently from
\* that of the ranked player it duplicates.
BackfillFromFallbackWitness ==
    /\ RankedReturned
    /\ Len(pool.results) = MaxRows
    /\ Len(job.seedPlayers) = SeedSize
    /\ \E i \in 1..Len(job.fallback), j \in 1..Len(ReturnedRanked) :
          /\ job.fallback[i].name # job.seedPlayers[j].name
          /\ normalizeName(job.fallback[i].name) = normalizeName(job.seedPlayers[j].name)
          /\ \A k \in 1..Len(job.seedPlayers) : job.seedPlayers[k] # job.fallback[i]

\* The franchise-players fetch of the buildTeamSeed call in progress failed
\* after its retries, or its payload was malformed, or its table had no rows.
RosterFetchFailed ==
    /\ job.phase \notin {"none", "franchisePlayers"}
    /\ \/ job.response.thrown
       \/ parseResultSet(job.response.payload).thrown
       \/ Len(parseResultSet(job.response.payload).rows) = 0

\* C12: when the franchise-players fetch of a franchise fails after its
\* retries, returns a malformed payload or returns no rows, buildTeamSeed
\* returns the first 15 entries of the franchise's fallback seed as they are,
\* without starting mapWithConcurrency and without a getPlayerMeta call.
FailedRosterReturnsFallback ==
    RosterFetchFailed =>
        /\ job.phase = "returned"
        /\ job.seedPlayers = SubSeq(seed[job.team], 1, Min(SeedSize, Len(seed[job.team])))
        /\ pool = NoPool
        /\ Len(promises) = job.promisesBefore

\* The fetch for the second franchise failed after the first franchise was
\* enriched: the three fallback players are returned and no promise is added.
FailedRosterReturnsFallbackWitness ==
    /\ RosterFetchFailed
    /\ job.phase = "returned"
    /\ job.team = BOS
    /\ Len(promises) > 0
    /\ Len(job.seedPlayers) = 3

\* The candidate at index i of the pool was enriched after its getPlayerMeta
\* promise rejected (one of its three fetches threw after its retries).
EnrichmentFailed(i) ==
    promises[metaByPlayerId[pool.items[i].playerId]].status = "rejected"

\* The entry at index i holds what the candidate's fallback seed entry says,
\* or 0 championships and 1 year with the team without such an entry.
FromFallback(i, fallbackPlayer) ==
    IF fallbackPlayer.found
    THEN /\ pool.results[i].years = yearsString(fallbackPlayer.entry.years)
         /\ pool.results[i].championships =
                IF fallbackPlayer.entry.championships.def
                THEN fallbackPlayer.entry.championships.val ELSE 0
         /\ fallbackPlayer.entry.careerYears.def =>
                pool.results[i].careerYears >= fallbackPlayer.entry.careerYears.val
         /\ \A k \in 1..Len(pool.results[i].positions) :
                \E j \in 1..Len(fallbackPlayer.entry.positions) :
                    pool.results[i].positions[k] = fallbackPlayer.entry.positions[j]
    ELSE /\ pool.results[i].championships = 0
         /\ pool.results[i].yearsWithTeam = 1
         /\ pool.results[i].years = UnknownYears

\* C13: a candidate whose getPlayerMeta promise rejects stays in the enriched
\* list, under its own id and name, with the values of its fallback seed
\* entry or, without one, 0 championships and 1 year with the team; the
\* candidates whose promise fulfils are enriched from the service; no worker
\* and no buildTeamSeed call rejects; and when buildTeamSeed returns, the
\* enriched list has an entry for every candidate.
FailedCandidateFallsBack ==
    /\ job.phase # "rejected"
    /\ "items" \in DOMAIN pool =>
          /\ pool.active => \A w \in 1..Len(pool.workers) : pool.workers[w].state # "rejected"
          /\ \A i \in DOMAIN pool.results :
                /\ pool.results[i].playerId = pool.items[i].playerId
                /\ pool.results[i].playerName = pool.items[i].playerName
                /\ IF EnrichmentFailed(i)
                   THEN FromFallback(i, getFallbackSeed(job.team, pool.items[i].playerName))
                   ELSE pool.results[i].personalAccoladesRaw =
                            computePlayerAccoladesRaw(playerAwardsOf(pool.items[i].playerId))
          /\ job.phase = "returned" => DOMAIN pool.results = 1..Len(pool.items)

\* buildTeamSeed has returned for six candidates: the promise of one with a
\* fallback entry rejected, that of one without a fallback entry rejected,
\* and that of a third fulfilled.
FailedCandidateFallsBackWitness ==
    /\ job.phase = "returned"
    /\ "items" \in DOMAIN pool
    /\ Len(pool.items) = MaxRows
    /\ \E i, j, k \in DOMAIN pool.results :
          /\ EnrichmentFailed(i)
          /\ getFallbackSeed(job.team, pool.items[i].playerName).found
          /\ EnrichmentFailed(j)
          /\ ~getFallbackSeed(job.team, pool.items[j].playerName).found
          /\ ~EnrichmentFailed(k)

\* The workers whose mapper call has not settled.
AwaitingWorkers == {w \in 1..Len(pool.workers) : pool.workers[w].state = "awaiting"}

\* C14: while mapWithConcurrency runs, at most min(limit, items.length)
\* mapper calls are unsettled (limit is 5 in buildTeamSeed), they are the
\* calls for the current items of distinct workers, and a worker moves to
\* another item only from the state in which the mapper call for its current
\* item has settled.
WorkersBounded ==
    /\ [](pool.active =>
            /\ Cardinality(pool.inFlight) <= Min(EnrichmentConcurrency, Len(pool.items))
            /\ pool.inFlight = {pool.workers[w].index : w \in AwaitingWorkers}
            /\ \A v, w \in AwaitingWorkers :
                  pool.workers[v].index = pool.workers[w].index => v = w)
    /\ [][pool.active /\ pool'.active =>
             \A w \in 1..Len(pool.workers) :
                pool'.workers[w].index # pool.workers[w].index =>
                    /\ pool.workers[w].state = "settled"
                    /\ pool.workers[w].index \notin pool.inFlight]_vars

\* Six candidates: five mapper calls are unsettled, one of them for the sixth
\* candidate, which a worker took after its first call had settled.
WorkersBoundedWitness ==
    /\ pool.active
    /\ Len(pool.items) > EnrichmentConcurrency
    /\ Cardinality(pool.inFlight) = EnrichmentConcurrency
    /\ \E w \in AwaitingWorkers :
          /\ pool.workers[w].index > EnrichmentConcurrency
          /\ \E i \in DOMAIN pool.results : i <= EnrichmentConcurrency

\* C15: whatever the order of the getPlayerMeta calls and of the responses,
\* the three fetches of a player id are started at most once (there is one
\* promise per player id), metaByPlayerId maps each id to that promise, and
\* every mapper call for the id, of any worker and any franchise of the run,
\* awaits it.
MetaFetchedOnce ==
    /\ \A p, q \in 1..Len(promises) :
          promises[p].playerId = promises[q].playerId => p = q
    /\ \A id \in DOMAIN metaByPlayerId :
          /\ metaByPlayerId[id] \in 1..Len(promises)
          /\ promises[metaByPlayerId[id]].playerId = id
    /\ pool.active =>
          \A w \in 1..Len(pool.workers) :
             pool.workers[w].state \in {"awaiting", "settled"} =>
                 /\ pool.items[pool.workers[w].index].playerId \in DOMAIN metaByPlayerId
                 /\ pool.workers[w].promise =
                        metaByPlayerId[pool.items[pool.workers[w].index].playerId]

\* In the second franchise two workers await one promise, and the promise was
\* created while the first franchise was enriched.
MetaFetchedOnceWitness ==
    /\ pool.active
    /\ job.team = BOS
    /\ \E v, w \in AwaitingWorkers :
          /\ v # w
          /\ pool.workers[v].promise = pool.workers[w].promise
          /\ pool.workers[v].promise <= job.promisesBefore

\* C29: a getPlayerMeta promise that has rejected stays in metaByPlayerId
\* and stays rejected, no other promise is created for its player id (no
\* fetch is started again), every later mapper call for the id awaits that
\* promise, and every entry of the player, in the enriched list of whatever
\* franchise, comes from the fallback path.
RejectedMetaStaysCached ==
    /\ [][\A id \in DOMAIN metaByPlayerId :
             promises[metaByPlayerId[id]].status = "rejected" =>
                 /\ id \in DOMAIN metaByPlayerId'
                 /\ metaByPlayerId'[id] = metaByPlayerId[id]
                 /\ promises'[metaByPlayerId[id]] = promises[metaByPlayerId[id]]
                 /\ \A q \in 1..Len(promises') :
                        promises'[q].playerId = id => q = metaByPlayerId[id]
                 /\ pool'.active =>
                        \A w \in 1..Len(pool'.workers) :
                           /\ pool'.workers[w].state \in {"awaiting", "settled"}
                           /\ pool'.items[pool'.workers[w].index].playerId = id
                           => pool'.workers[w].promise = metaByPlayerId[id]]_vars
    /\ []("items" \in DOMAIN pool =>
             \A i \in DOMAIN pool.results :
                 EnrichmentFailed(i) =>
                     FromFallback(i, getFallbackSeed(job.team, pool.items[i].playerName)))

\* The second franchise has an entry for a player whose promise was created,
\* and rejected, while the first franchise was enriched, and no promise has
\* been created for the second franchise.
RejectedMetaStaysCachedWitness ==
    /\ "items" \in DOMAIN pool
    /\ "team" \in DOMAIN job
    /\ job.team = BOS
    /\ Len(promises) = job.promisesBefore
    /\ \E i \in DOMAIN pool.results :
          /\ EnrichmentFailed(i)
          /\ metaByPlayerId[pool.items[i].playerId] <= job.promisesBefore

\* C30: every entry of the enriched list, of a candidate whose promise
\* fulfilled or rejected, with or without a fallback seed entry, has a
\* positions list that is not empty and holds lineup slots only, each once,
\* in the order of LINEUP_SLOTS.
PositionsCanonical ==
    "items" \in DOMAIN pool =>
        \A i \in DOMAIN pool.results :
            /\ Len(pool.results[i].positions) > 0
            /\ \E at \in [1..Len(pool.results[i].positions) -> 1..Len(LINEUP_SLOTS)] :
                   /\ \A k \in DOMAIN at : LINEUP_SLOTS[at[k]] = pool.results[i].positions[k]
                   /\ \A k \in DOMAIN at : k > 1 => at[k - 1] < at[k]

(***************************************************************************)
(* Properties of fetchJson                                                 *)
(***************************************************************************)
\* The attempts fetchJson has begun.
AttemptsMade ==
    IF fetchJsonCall.phase = "thrown" THEN fetchJsonCall.attempt - 1
    ELSE fetchJsonCall.attempt

\* C16: fetchJson(url, retries) begins at most `retries` attempts and the
\* pending fetch of an attempt is aborted after the timeout at the latest; it
\* returns at the first attempt whose response is OK, every attempt before
\* having failed, and does nothing after that; the wait after the k-th failed
\* attempt is k * 300 ms; and when all of its attempts have failed it throws
\* the error of the last one.
FetchJsonRetries ==
    /\ [](fetchJsonCall.phase # "idle" =>
            /\ AttemptsMade <= fetchJsonCall.retries
            /\ fetchJsonCall.elapsed <= TimeoutSteps
            /\ \A k \in 1..Len(fetchJsonCall.errors) : fetchJsonCall.errors[k].attempt = k
            /\ Len(fetchJsonCall.errors) =
                  IF fetchJsonCall.phase = "sleeping" THEN AttemptsMade ELSE
                  IF fetchJsonCall.phase = "thrown" THEN AttemptsMade ELSE AttemptsMade - 1
            /\ Len(fetchJsonCall.slept) =
                  IF fetchJsonCall.phase = "sleeping" THEN Len(fetchJsonCall.errors) - 1
                  ELSE Len(fetchJsonCall.errors)
            /\ \A k \in 1..Len(fetchJsonCall.slept) : fetchJsonCall.slept[k] = k * BackoffMs
            /\ fetchJsonCall.phase = "thrown" /\ fetchJsonCall.retries >= 1 =>
                  /\ AttemptsMade = fetchJsonCall.retries
                  /\ fetchJsonCall.error = fetchJsonCall.errors[fetchJsonCall.retries])
    /\ [][fetchJsonCall.phase \in {"returned", "thrown"} =>
             fetchJsonCall' = fetchJsonCall]_vars

\* The third attempt got the OK response, after the waits of 300 and 600 ms.
FetchJsonRetriesWitness ==
    /\ fetchJsonCall.phase = "returned"
    /\ fetchJsonCall.attempt = 3
    /\ fetchJsonCall.retries = 3
    /\ fetchJsonCall.slept = <<BackoffMs, 2 * BackoffMs>>

(***************************************************************************)
(* Properties of the tenure adjustment                                     *)
(***************************************************************************)
\* Two inputs of computeGreatness that differ in yearsWithTeam only, the
\* first having the shorter stint.
ShorterGreatness(first, second) ==
    /\ first.rankIndex = second.rankIndex
    /\ first.careerYears = second.careerYears
    /\ first.championships = second.championships
    /\ first.yearsWithTeam < second.yearsWithTeam

\* Two ranked entries with the same category inputs and career, the first
\* having the shorter stint.
ShorterRanked(first, second) ==
    /\ first.personalAccoladesRaw = second.personalAccoladesRaw
    /\ first.teamAccoladesRaw = second.teamAccoladesRaw
    /\ first.statsRaw = second.statsRaw
    /\ first.advancedRaw = second.advancedRaw
    /\ first.careerYears = second.careerYears
    /\ first.championships = second.championships
    /\ first.yearsWithTeam < second.yearsWithTeam

GreatnessReturned == pc = "returned" /\ call.op = "computeGreatness"
RankingReturned == pc = "returned" /\ call.op = "ranking"

LineupReturned == pc = "returned" /\ call.op = "scoreLineup"

SubScores == {"roleCoverage", "complementarity", "usageBalance", "twoWayBalance",
              "culture", "chemistryScore"}

\* The role profiles computeChemistry built for the returned lineup (e5).
ReturnedProfiles == roleProfiles(result.playerScores)

\* C18: for every lineup scored, each of the five sub-scores and the
\* chemistryScore returned is in [0, 100] (deci: 0..1000), and so is every
\* dimension of each role profile built for it (e5: 0..10000000).
ChemistryInRange ==
    LineupReturned =>
        /\ \A f \in SubScores :
              result.chemistry[f] >= 0 /\ result.chemistry[f] <= 1000
        /\ \A i \in 1..Len(ReturnedProfiles) : \A d \in RoleDimensions :
              ReturnedProfiles[i][d] >= 0 /\ ReturnedProfiles[i][d] <= 10000000

\* A lineup of five whose usageBalance is held at 0 by the clamp, with a
\* player of ballDominance above 85 in it.
ChemistryInRangeWitness ==
    /\ LineupReturned
    /\ Len(call.picks) = 5
    /\ result.chemistry.usageBalance = 0
    /\ \E i \in 1..5 : ReturnedProfiles[i].ballDominance > 8500000

\* The picks of the returned lineup whose ballDominance is above 85.
HighUsagePicks == {i \in 1..Len(ReturnedProfiles) : ReturnedProfiles[i].ballDominance > 8500000}

CompleteLineup(picks) ==
    /\ Len(picks) = Len(LINEUP_SLOTS)
    /\ \A k \in 1..Len(LINEUP_SLOTS) : \E i \in 1..Len(picks) : picks[i].slot = LINEUP_SLOTS[k]

\* The pick's player is not in the franchise's data.
Unresolved(pick) ==
    makeTeamPlayerKey(pick.teamAbbr, pick.playerName) \notin DOMAIN statsByTeamPlayer

\* C20: the step that follows a call of scoreLineup with a complete lineup
\* is its return with a result, whatever names the picks hold; the result
\* has a score for each pick, and usedFallbackStats is TRUE exactly when a
\* pick that is not a penalty pick has a player that is not in the data,
\* which is when that pick was scored from the baseline.
CompleteLineupScored ==
    /\ [][pc = "called" /\ call.op = "scoreLineup" /\ CompleteLineup(call.picks) =>
             /\ pc' = "returned"
             /\ call' = call
             /\ DOMAIN result' = {"baseTeamScore", "teamScore", "chemistry", "playerScores",
                                  "usedFallbackStats"}]_vars
    /\ [](LineupReturned /\ CompleteLineup(call.picks) =>
             /\ Len(result.playerScores) = Len(call.picks)
             /\ \A i \in 1..Len(call.picks) :
                   result.playerScores[i].usedFallback =
                       (~call.picks[i].isPenalty /\ Unresolved(call.picks[i]))
             /\ result.usedFallbackStats =
                   (\E i \in 1..Len(call.picks) :
                       ~call.picks[i].isPenalty /\ Unresolved(call.picks[i])))

\* A complete lineup of players that are all unknown, some of them penalty
\* picks, was scored and the fallback is reported.
CompleteLineupScoredWitness ==
    /\ LineupReturned
    /\ CompleteLineup(call.picks)
    /\ \A i \in 1..Len(call.picks) : Unresolved(call.picks[i])
    /\ \E i \in 1..Len(call.picks) : call.picks[i].isPenalty
    /\ \E i \in 1..Len(call.picks) : ~call.picks[i].isPenalty
    /\ result.usedFallbackStats
(***************************************************************************)
(* src/components/draft-board.tsx: a mounted DraftBoard.  draftBoard holds *)
(* the props of the last render (roster, lineup, chosenPlayers,            *)
(* currentDrawIndex, shotClockDeadlineAt), the useState values, the        *)
(* timeoutHandledRef, the dependencies the effects last ran with, the      *)
(* number of router.refresh() calls since timeoutHandledRef was last reset *)
(* (counted up to 2), the deadline of the last call and whether an earlier *)
(* call was for that deadline too, and whether a tick has read 0 seconds   *)
(* since the last call.                                                    *)
(* A lineup entry is "open" or "locked" (a pick or a penalty); no          *)
(* selection (null) is "".  Time is counted in steps of 250 ms: a deadline *)
(* is [id, left], the steps left until it, and the null deadline has id 0. *)
(* The deadline of draw d has id 2d + 1, and 2d + 2 once issued again.     *)
(***************************************************************************)
ShotClockTicks == 5     \* steps of 250 ms from the issue of a deadline to the deadline

\* getSecondsRemaining: Math.max(0, Math.ceil(remainingMs / 1000)), 0 without a deadline.
getSecondsRemaining(deadline) ==
    IF deadline.id = 0 THEN 0
    ELSE Max(0, (deadline.left + 3) \div 4)

\* selectedPlayerEligibleSlots: roster.find(...)?.eligibleSlots ?? []
selectedPlayerEligibleSlots(roster, selectedPlayer) ==
    LET found == {k \in 1..Len(roster) : roster[k].name = selectedPlayer}
    IN IF found = {} THEN <<>>
       ELSE roster[CHOOSE k \in found : \A j \in found : k <= j].eligibleSlots

\* isPlayable of a roster entry; selectedPlayerIsPlayable for the selected name.
isPlayable(board, name, eligibleSlots) ==
    /\ name \notin board.chosenPlayers
    /\ \E k \in 1..Len(eligibleSlots) : board.lineup[eligibleSlots[k]] = "open"

\* canConfirm without its look at the open slots.
canConfirmAnySlot(board) ==
    /\ board.selectedPlayer # ""
    /\ board.selectedSlot # ""
    /\ \E k \in 1..Len(selectedPlayerEligibleSlots(board.roster, board.selectedPlayer)) :
           selectedPlayerEligibleSlots(board.roster, board.selectedPlayer)[k] = board.selectedSlot

\* canConfirm
canConfirm(board) ==
    /\ board.selectedPlayer # ""
    /\ board.selectedSlot # ""
    /\ board.lineup[board.selectedSlot] = "open"
    /\ \E k \in 1..Len(selectedPlayerEligibleSlots(board.roster, board.selectedPlayer)) :
           selectedPlayerEligibleSlots(board.roster, board.selectedPlayer)[k] = board.selectedSlot

\* The roster of the franchise of a draw, as getRosterByTeam returns it.  A
\* player of one franchise can be a player of another, with other slots.
rosterOfDraw(currentDrawIndex) ==
    LET RosterPlayer(name, eligibleSlots) == [name |-> name, eligibleSlots |-> eligibleSlots]
    IN IF currentDrawIndex % 3 = 0
       THEN <<RosterPlayer("A", <<"PG">>), RosterPlayer("B", <<"SG", "SF">>),
              RosterPlayer("C", LINEUP_SLOTS)>>
       ELSE IF currentDrawIndex % 3 = 1
       THEN <<RosterPlayer("A", <<"C">>), RosterPlayer("D", <<"PF", "C">>)>>
       ELSE <<>>

\* The first render of the page and the effects of the mount.
MountDraftBoard ==
    /\ ~draftBoard.mounted
    /\ \E deadline \in {[id |-> 0, left |-> 0], [id |-> 1, left |-> ShotClockTicks]} :
           draftBoard' = [mounted |-> TRUE,
                          roster |-> rosterOfDraw(0),
                          lineup |-> [slot \in SlotSet |-> "open"],
                          chosenPlayers |-> {},
                          currentDrawIndex |-> 0,
                          shotClockDeadlineAt |-> deadline,
                          selectedPlayer |-> "",
                          selectedSlot |-> "",
                          mobilePanel |-> "players",
                          isConfirmOpen |-> FALSE,
                          isSubmittingPick |-> FALSE,
                          secondsRemaining |-> getSecondsRemaining(deadline),
                          timeoutHandled |-> FALSE,
                          clockDeps |-> [deadline |-> deadline.id, currentDrawIndex |-> 0],
                          intervalDeadline |-> deadline,
                          refreshes |-> 0,
                          lastRefreshed |-> 0,
                          refreshedAgain |-> FALSE,
                          ignoredTick |-> FALSE]
    /\ UNCHANGED <<dataVars, scoringVars, syncVars, fetchJsonCall>>

\* onClick of a player button: nothing for a player that is not playable (the
\* button is disabled then, and when the lineup is complete).
ClickPlayer ==
    /\ draftBoard.mounted
    /\ \E k \in 1..Len(draftBoard.roster) :
           draftBoard' =
               IF isPlayable(draftBoard, draftBoard.roster[k].name,
                             draftBoard.roster[k].eligibleSlots)
               THEN [draftBoard EXCEPT !.selectedPlayer = draftBoard.roster[k].name,
                                       !.mobilePanel = "lineup",
                                       !.isConfirmOpen = FALSE]
               ELSE draftBoard
    /\ UNCHANGED <<dataVars, scoringVars, syncVars, fetchJsonCall>>

\* onClick of a slot button: () => !isDisabled && setSelectedSlot(slot)
ClickSlot ==
    /\ draftBoard.mounted
    /\ \E slot \in SlotSet :
           LET isOpen == draftBoard.lineup[slot] = "open"
               eligible == selectedPlayerEligibleSlots(draftBoard.roster, draftBoard.selectedPlayer)
               isEligibleForSelectedPlayer ==
                   draftBoard.selectedPlayer = "" \/ \E k \in 1..Len(eligible) : eligible[k] = slot
               isDisabled == ~isOpen \/ ~isEligibleForSelectedPlayer
           IN draftBoard' = IF isDisabled THEN draftBoard
                            ELSE [draftBoard EXCEPT !.selectedSlot = slot]
    /\ UNCHANGED <<dataVars, scoringVars, syncVars, fetchJsonCall>>

\* The other buttons: the two panel buttons, "Confirm assignment" (disabled
\* unless canConfirm), the submit of the dialog's form and its "Cancel"
\* (both disabled while the pick is submitted).
ClickButton ==
    /\ draftBoard.mounted
    /\ \/ \E panel \in {"players", "lineup"} :
              draftBoard' = [draftBoard EXCEPT !.mobilePanel = panel]
       \/ /\ canConfirm(draftBoard)
          /\ draftBoard' = [draftBoard EXCEPT !.isConfirmOpen = TRUE]
       \/ /\ draftBoard.isConfirmOpen /\ ~draftBoard.isSubmittingPick
          /\ draftBoard' = [draftBoard EXCEPT !.isSubmittingPick = TRUE]
       \/ /\ draftBoard.isConfirmOpen /\ ~draftBoard.isSubmittingPick
          /\ draftBoard' = [draftBoard EXCEPT !.isConfirmOpen = FALSE]
    /\ UNCHANGED <<dataVars, scoringVars, syncVars, fetchJsonCall>>

\* The page renders the board with new props: a pick of the draw's roster, or
\* a penalty, is locked into an open slot, and the next draw begins with the
\* roster of its franchise and a new deadline; or the deadline of the draw is
\* issued again; or nothing has changed.
RenderWithProps ==
    /\ draftBoard.mounted
    /\ LET Deadline(id) ==
               IF draftBoard.shotClockDeadlineAt.id = 0 THEN draftBoard.shotClockDeadlineAt
               ELSE [id |-> id, left |-> ShotClockTicks]
           NextDraw(slot, chosen) ==
               [draftBoard EXCEPT !.lineup[slot] = "locked",
                                  !.chosenPlayers = @ \cup chosen,
                                  !.currentDrawIndex = @ + 1,
                                  !.roster = rosterOfDraw(draftBoard.currentDrawIndex + 1),
                                  !.shotClockDeadlineAt =
                                      Deadline(2 * (draftBoard.currentDrawIndex + 1) + 1)]
       IN \/ \E slot \in {sl \in SlotSet : draftBoard.lineup[sl] = "open"} :
                 \/ \E k \in 1..Len(draftBoard.roster) :
                        /\ draftBoard.roster[k].name \notin draftBoard.chosenPlayers
                        /\ draftBoard' = NextDraw(slot, {draftBoard.roster[k].name})
                 \/ draftBoard' = NextDraw(slot, {})
          \/ /\ draftBoard.shotClockDeadlineAt.id % 2 = 1
             /\ draftBoard' = [draftBoard EXCEPT !.shotClockDeadlineAt =
                                                     Deadline(draftBoard.shotClockDeadlineAt.id + 1)]
          \/ draftBoard' = draftBoard
    /\ UNCHANGED <<dataVars, scoringVars, syncVars, fetchJsonCall>>

\* The effects of the last render, in the order of the component: those whose
\* dependencies have changed run, each with the values of that render.
RunEffects ==
    /\ draftBoard.mounted
    /\ LET eligible == selectedPlayerEligibleSlots(draftBoard.roster, draftBoard.selectedPlayer)
           clockDeps == [deadline |-> draftBoard.shotClockDeadlineAt.id,
                         currentDrawIndex |-> draftBoard.currentDrawIndex]
           clockChanged == clockDeps # draftBoard.clockDeps
           slotIneligible ==
               /\ draftBoard.selectedSlot # ""
               /\ ~\E k \in 1..Len(eligible) : eligible[k] = draftBoard.selectedSlot
           confirmClosed == ~draftBoard.isConfirmOpen /\ draftBoard.isSubmittingPick
           playerUnplayable ==
               /\ draftBoard.selectedPlayer # ""
               /\ ~isPlayable(draftBoard, draftBoard.selectedPlayer, eligible)
       IN /\ \/ clockChanged
             \/ draftBoard.intervalDeadline.id # draftBoard.shotClockDeadlineAt.id
             \/ slotIneligible
             \/ confirmClosed
             \/ playerUnplayable
          /\ draftBoard' =
                 [draftBoard EXCEPT
                     !.secondsRemaining =
                         IF clockChanged THEN getSecondsRemaining(draftBoard.shotClockDeadlineAt)
                         ELSE @,
                     !.timeoutHandled = IF clockChanged THEN FALSE ELSE @,
                     !.refreshes = IF clockChanged THEN 0 ELSE @,
                     !.ignoredTick = IF clockChanged THEN FALSE ELSE @,
                     !.clockDeps = clockDeps,
                     !.intervalDeadline = draftBoard.shotClockDeadlineAt,
                     !.selectedSlot = IF slotIneligible \/ playerUnplayable THEN "" ELSE @,
                     !.isSubmittingPick = IF confirmClosed THEN FALSE ELSE @,
                     !.selectedPlayer = IF playerUnplayable THEN "" ELSE @,
                     !.isConfirmOpen = IF playerUnplayable THEN FALSE ELSE @]
    /\ UNCHANGED <<dataVars, scoringVars, syncVars, fetchJsonCall>>

\* An interval callback that asks for a refresh whenever it reads 0 seconds.
IntervalTickUnguarded ==
    /\ draftBoard.mounted
    /\ LET remaining == getSecondsRemaining(draftBoard.intervalDeadline)
       IN draftBoard' =
              IF remaining <= 0
              THEN [draftBoard EXCEPT !.secondsRemaining = remaining,
                                      !.timeoutHandled = TRUE,
                                      !.refreshes = Min(2, @ + 1),
                                      !.lastRefreshed = draftBoard.intervalDeadline.id,
                                      !.refreshedAgain =
                                          \/ @
                                          \/ /\ draftBoard.intervalDeadline.id # 0
                                             /\ draftBoard.intervalDeadline.id = draftBoard.lastRefreshed,
                                      !.ignoredTick = FALSE]
              ELSE [draftBoard EXCEPT !.secondsRemaining = remaining]
    /\ UNCHANGED <<dataVars, scoringVars, syncVars, fetchJsonCall>>

\* The callback of window.setInterval(..., 250), with the deadline of the
\* render its effect ran for.
IntervalTick ==
    /\ draftBoard.mounted
    /\ LET remaining == getSecondsRemaining(draftBoard.intervalDeadline)
       IN draftBoard' =
              IF remaining <= 0 /\ ~draftBoard.timeoutHandled
              THEN [draftBoard EXCEPT !.secondsRemaining = remaining,
                                      !.timeoutHandled = TRUE,
                                      !.refreshes = Min(2, @ + 1),
                                      !.lastRefreshed = draftBoard.intervalDeadline.id,
                                      !.refreshedAgain =
                                          \/ @
                                          \/ /\ draftBoard.intervalDeadline.id # 0
                                             /\ draftBoard.intervalDeadline.id = draftBoard.lastRefreshed,
                                      !.ignoredTick = FALSE]
              ELSE [draftBoard EXCEPT !.secondsRemaining = remaining,
                                      !.ignoredTick = @ \/ remaining <= 0]
    /\ UNCHANGED <<dataVars, scoringVars, syncVars, fetchJsonCall>>

\* 250 ms pass (Date.now()).
TimePasses ==
    /\ draftBoard.mounted
    /\ draftBoard.shotClockDeadlineAt.left > 0 \/ draftBoard.intervalDeadline.left > 0
    /\ draftBoard' = [draftBoard EXCEPT !.shotClockDeadlineAt.left = Max(0, @ - 1),
                                        !.intervalDeadline.left = Max(0, @ - 1)]
    /\ UNCHANGED <<dataVars, scoringVars, syncVars, fetchJsonCall>>

\* The board is the only state its handlers read or write: the data module
\* is loaded, with seed lists the board does not look at.
DraftInit == SyncInit /\ Len(seed[ATL]) = 0

\* The clicks, the renders and the effects, with the clock at rest.
DraftNext ==
    \/ MountDraftBoard
    \/ ClickPlayer
    \/ ClickSlot
    \/ ClickButton
    \/ RenderWithProps
    \/ RunEffects

DraftSpec == DraftInit /\ [][DraftNext]_vars

\* The shot clock of a board nobody clicks on.
ShotClockNext ==
    \/ MountDraftBoard
    \/ RenderWithProps
    \/ RunEffects
    \/ IntervalTick
    \/ TimePasses

ShotClockSpec == DraftInit /\ [][ShotClockNext]_vars

(***************************************************************************)
(* Properties of the draft board                                           *)
(***************************************************************************)
\* C21: whatever the clicks, renders and effects so far, "Confirm assignment"
\* is enabled only when a player and a slot are selected, the slot is open in
\* the lineup and the slot is among the eligible slots of the roster entry
\* with the selected name; and a click never selects a slot that is locked.
ConfirmOnlyOpenEligibleSlot ==
    /\ [](draftBoard.mounted /\ canConfirm(draftBoard) =>
             /\ draftBoard.selectedPlayer # ""
             /\ draftBoard.selectedSlot \in SlotSet
             /\ draftBoard.lineup[draftBoard.selectedSlot] = "open"
             /\ \E k \in 1..Len(draftBoard.roster) :
                    /\ draftBoard.roster[k].name = draftBoard.selectedPlayer
                    /\ \A j \in 1..(k - 1) : draftBoard.roster[j].name # draftBoard.selectedPlayer
                    /\ \E i \in 1..Len(draftBoard.roster[k].eligibleSlots) :
                           draftBoard.roster[k].eligibleSlots[i] = draftBoard.selectedSlot)
    /\ [][draftBoard.mounted /\ draftBoard'.selectedSlot # draftBoard.selectedSlot
              /\ draftBoard'.selectedSlot # ""
           => /\ draftBoard.lineup[draftBoard'.selectedSlot] = "open"
              /\ draftBoard'.lineup[draftBoard'.selectedSlot] = "open"]_vars

\* The confirm button is enabled on a board whose selected player could also
\* have gone to a slot that is locked by now.
ConfirmOnlyOpenEligibleSlotWitness ==
    /\ draftBoard.mounted
    /\ canConfirm(draftBoard)
    /\ \E k \in 1..Len(selectedPlayerEligibleSlots(draftBoard.roster, draftBoard.selectedPlayer)) :
           draftBoard.lineup[selectedPlayerEligibleSlots(draftBoard.roster,
                                                        draftBoard.selectedPlayer)[k]] = "locked"

(***************************************************************************)
(* Further properties of the percentile lookup                             *)
(***************************************************************************)
\* C22: for every population and every query value, the percentile that
\* normalizePlayerMetricGlobally or normalizeByDistribution returns is a
\* number (no quotient by 0) between 0 and 100.
PercentileInRange ==
    GloballyReturned \/ ByDistributionReturned =>
        /\ result.den > 0
        /\ 0 <= result.num
        /\ result.num <= 100 * result.den

\* The percentile of a value above every value of a population of two or
\* more has been returned, and it is 100.
PercentileInRangeWitness ==
    /\ GloballyReturned \/ ByDistributionReturned
    /\ Len(ReturnedPopulation) >= 2
    /\ CountLess = Len(ReturnedPopulation)
    /\ result.num = 100 * result.den

(***************************************************************************)
(* Further properties of the player contribution                           *)
(***************************************************************************)
ScorePlayerReturned == pc = "returned" /\ call.op = "scorePlayer"

\* The weighted sum of the returned normalized metrics, in 1e-5.
ReturnedWeightedSum ==
    result.normalizedMetrics.bpm * 30 + result.normalizedMetrics.ws48 * 25
        + result.normalizedMetrics.vorp * 25 + result.normalizedMetrics.epm * 20

\* C23: for every PlayerStats input, each of the four normalized metrics that
\* scorePlayer returns lies in [0, 95]; the contribution is the sum of the
\* metrics weighted 0.30, 0.25, 0.25 and 0.20 (weights that add up to 1),
\* rounded to one decimal; so it lies in [0, 95] and, up to that rounding,
\* between the smallest and the largest of the four metrics.
ContributionIsWeightedMean ==
    ScorePlayerReturned =>
        /\ \A m \in Metrics : 0 <= result.normalizedMetrics[m]
                               /\ result.normalizedMetrics[m] <= 95000
        /\ METRIC_WEIGHTS.bpm + METRIC_WEIGHTS.ws48 + METRIC_WEIGHTS.vorp
               + METRIC_WEIGHTS.epm = 100
        /\ result.contribution * 10000 - ReturnedWeightedSum <= 5000
        /\ ReturnedWeightedSum - result.contribution * 10000 <= 5000
        /\ 0 <= result.contribution /\ result.contribution <= 950
        /\ \E low, high \in Metrics :
               /\ \A m \in Metrics : result.normalizedMetrics[low] <= result.normalizedMetrics[m]
                                      /\ result.normalizedMetrics[m] <= result.normalizedMetrics[high]
               /\ result.normalizedMetrics[low] - 50 <= result.contribution * 100
               /\ result.contribution * 100 <= result.normalizedMetrics[high] + 50

\* scorePlayer has returned for stats of which one is at the top of its
\* population and another is not: a metric is 95, and the contribution lies
\* strictly between the smallest and the largest metric.
ContributionIsWeightedMeanWitness ==
    /\ ScorePlayerReturned
    /\ \E low, high \in Metrics :
           /\ result.normalizedMetrics[high] = 95000
           /\ result.normalizedMetrics[low] < result.contribution * 100
           /\ result.contribution * 100 < result.normalizedMetrics[high]

(***************************************************************************)
(* The data of the module under the reading functions                      *)
(***************************************************************************)
\* C24: after initialisation, no call of scoreLineup, scorePlayer,
\* lookupPlayerStats, normalizePlayerMetricGlobally, getRosterByTeam or
\* getPlayerEligibleSlots changes the roster map, the stats map, the slot map
\* or a calibration distribution, and every calibration distribution is
\* sorted ascending at all times.
ReadersLeaveDataUnchanged ==
    /\ [](\A m \in Metrics : \A i \in 1..(Len(globalMetricDistributions[m]) - 1) :
             globalMetricDistributions[m][i] <= globalMetricDistributions[m][i + 1])
    /\ [][/\ rosterByTeam' = rosterByTeam
          /\ rosterNamesByTeam' = rosterNamesByTeam
          /\ statsByTeamPlayer' = statsByTeamPlayer
          /\ slotsByTeamPlayer' = slotsByTeamPlayer
          /\ globalMetricDistributions' = globalMetricDistributions
          /\ globalMetricRanges' = globalMetricRanges]_vars

\* scoreLineup has returned for a lineup with a player the stats map does not
\* hold, the map still without that player and the distributions of two or
\* more different values.
ReadersLeaveDataUnchangedWitness ==
    /\ ScoreLineupReturned
    /\ result.usedFallbackStats
    /\ \E i \in 1..Len(lookups) : lookups[i] \notin DOMAIN statsByTeamPlayer
    /\ \A m \in Metrics :
           /\ Len(globalMetricDistributions[m]) >= 2
           /\ globalMetricDistributions[m][1]
                  < globalMetricDistributions[m][Len(globalMetricDistributions[m])]

(***************************************************************************)
(* Further properties of the data refresh                                  *)
(***************************************************************************)
\* C25: whatever the order in which the fetches settle and the workers
\* continue, mapWithConcurrency calls the mapper for the indices in their
\* order, each once and none left out; a result is stored only for a call
\* that has settled, at the index of its item; when every result is stored
\* every worker has returned, so Promise.all(workers) resolves; and
\* mapWithConcurrency is over only with a result for every item, in the order
\* of the items.
EachIndexMappedOnce ==
    "invoked" \in DOMAIN pool =>
        /\ Len(pool.invoked) <= Len(pool.items)
        /\ \A k \in 1..Len(pool.invoked) : pool.invoked[k] = k
        /\ DOMAIN pool.results \subseteq 1..Len(pool.invoked)
        /\ \A i \in DOMAIN pool.results :
               /\ pool.results[i].playerId = pool.items[i].playerId
               /\ pool.results[i].playerName = pool.items[i].playerName
        /\ pool.active =>
               /\ pool.inFlight \cap DOMAIN pool.results = {}
               /\ pool.inFlight \subseteq 1..Len(pool.invoked)
               /\ DOMAIN pool.results = 1..Len(pool.items) =>
                      /\ pool.queue = <<>>
                      /\ \A w \in 1..Len(pool.workers) : pool.workers[w].state = "returned"
        /\ ~pool.active =>
               /\ Len(pool.invoked) = Len(pool.items)
               /\ DOMAIN pool.results = 1..Len(pool.items)

\* mapWithConcurrency runs for more items than it has workers, two items of
\* one player id among them; the mapper has been called for every item, and
\* the result of a later item is stored while the call for an earlier item
\* is still unsettled.
EachIndexMappedOnceWitness ==
    /\ "invoked" \in DOMAIN pool
    /\ pool.active
    /\ Len(pool.items) > EnrichmentConcurrency
    /\ Len(pool.invoked) = Len(pool.items)
    /\ \E i, j \in 1..Len(pool.items) :
           i # j /\ pool.items[i].playerId = pool.items[j].playerId
    /\ \E i \in pool.inFlight : \E j \in DOMAIN pool.results : i < j

\* C26: every enriched candidate, whether its mapper call ended in the try
\* branch or in the catch branch, has careerYears >= yearsWithTeam >= 1 and a
\* tenureRatio in [0.08, 1], and the tenure multiplier 0.52 + tenureRatio *
\* 0.48 that the ranking applies to its base lies in [0.52, 1]: a base of 1
\* (1000 thousandths) becomes a score between 0.52 and 1 (in 1e-5).
TenureWithinBounds ==
    "results" \in DOMAIN pool =>
        \A i \in DOMAIN pool.results :
            /\ pool.results[i].yearsWithTeam >= 1
            /\ pool.results[i].careerYears >= pool.results[i].yearsWithTeam
            /\ pool.results[i].tenureRatio.den > 0
            /\ 100 * pool.results[i].tenureRatio.num >= 8 * pool.results[i].tenureRatio.den
            /\ pool.results[i].tenureRatio.num <= pool.results[i].tenureRatio.den
            /\ tenureScaled(1000, pool.results[i].tenureRatio) >= 52000
            /\ tenureScaled(1000, pool.results[i].tenureRatio) <= 100000

\* Among the enriched candidates of a franchise are one from the try branch
\* and one from the catch branch; the tenure ratio of one is clamped to 0.08,
\* that of another is 1, and a third lies in between.
TenureWithinBoundsWitness ==
    /\ "results" \in DOMAIN pool
    /\ \E i, j \in DOMAIN pool.results : EnrichmentFailed(i) /\ ~EnrichmentFailed(j)
    /\ \E i, j, k \in DOMAIN pool.results :
           /\ pool.results[i].tenureRatio = [num |-> 2, den |-> 25]
           /\ pool.results[j].tenureRatio.num = pool.results[j].tenureRatio.den
           /\ 100 * pool.results[k].tenureRatio.num > 8 * pool.results[k].tenureRatio.den
           /\ pool.results[k].tenureRatio.num < pool.results[k].tenureRatio.den

(***************************************************************************)
(* Properties of the baseline of unresolved players                        *)
(***************************************************************************)
\* C28: statsByTeamPlayer and slotsByTeamPlayer hold the same keys; a lookup
\* that lookupPlayerStats does not resolve finds the full slot list for the
\* player and returns the baseline of PG, and so does every pick of a scored
\* lineup that was scored from the baseline, whatever slot it occupies.
BaselineIsPointGuard ==
    /\ DOMAIN statsByTeamPlayer = DOMAIN slotsByTeamPlayer
    /\ LookupReturned /\ result.usedFallback =>
           /\ getPlayerEligibleSlots(call.teamAbbr, call.playerName) = LINEUP_SLOTS
           /\ result.stats = fallbackByPrimarySlot("PG")
    /\ ScoreLineupReturned =>
           \A i \in 1..Len(result.playerScores) :
               result.playerScores[i].usedFallback =>
                   result.playerScores[i].stats = fallbackByPrimarySlot("PG")

\* With players in the data, a lineup was scored that has unresolved players
\* at two slots other than PG, one of them the slot whose baseline differs
\* most.
BaselineIsPointGuardWitness ==
    /\ ScoreLineupReturned
    /\ DOMAIN statsByTeamPlayer # {}
    /\ \E i, j \in 1..Len(result.playerScores) :
           /\ result.playerScores[i].usedFallback
           /\ result.playerScores[j].usedFallback
           /\ result.playerScores[i].pick.slot = "C"
           /\ result.playerScores[j].pick.slot \notin {"PG", "C"}

(***************************************************************************)
(* Properties of the shot clock of the draft board                         *)
(***************************************************************************)
\* C27: router.refresh() is called at most once between two resets of
\* timeoutHandledRef and at most once for a deadline, however many ticks read
\* 0 seconds; it is called only by a tick that reads 0 seconds remaining of
\* its deadline; and timeoutHandledRef is reset by the effect that runs when
\* shotClockDeadlineAt or currentDrawIndex has changed, and by nothing else.
RefreshOncePerDeadline ==
    /\ [](draftBoard.mounted => draftBoard.refreshes <= 1 /\ ~draftBoard.refreshedAgain)
    /\ [][draftBoard.mounted =>
              /\ draftBoard'.refreshes > draftBoard.refreshes =>
                     /\ getSecondsRemaining(draftBoard.intervalDeadline) = 0
                     /\ ~draftBoard.timeoutHandled /\ draftBoard'.timeoutHandled
              /\ draftBoard'.clockDeps # draftBoard.clockDeps =>
                     /\ ~draftBoard'.timeoutHandled
                     /\ draftBoard'.refreshes = 0
                     /\ draftBoard'.clockDeps.deadline = draftBoard.shotClockDeadlineAt.id
                     /\ draftBoard'.clockDeps.currentDrawIndex = draftBoard.currentDrawIndex
              /\ draftBoard.timeoutHandled /\ ~draftBoard'.timeoutHandled =>
                     draftBoard'.clockDeps # draftBoard.clockDeps]_vars

\* The refresh has been asked for once for the deadline of a later draw,
\* after the reset for that draw, and a later tick has read 0 seconds again.
RefreshOncePerDeadlineWitness ==
    /\ draftBoard.mounted
    /\ draftBoard.currentDrawIndex >= 1
    /\ draftBoard.refreshes = 1
    /\ draftBoard.lastRefreshed = draftBoard.shotClockDeadlineAt.id
    /\ draftBoard.lastRefreshed >= 3
    /\ draftBoard.timeoutHandled
    /\ draftBoard.ignoredTick
    /\ draftBoard.secondsRemaining = 0

====
